---- MODULE Spec2Model ----
(***************************************************************************)
(* fstat 2.6.11 (src/fstat.go, lines 423-1226): the                         *)
(* filter -> sort -> aggregate -> render pipeline of main.                  *)
(*                                                                         *)
(* Strings are sequences of byte codes, so that Go's byte-wise string      *)
(* comparison, strings.ToLower, slicing and formatting are computed and    *)
(* not assumed; where the libraries read a string as UTF-8, the runes are  *)
(* decoded from the bytes.  A time.Time is an instant [sec, nsec] (Unix    *)
(* seconds and nanoseconds); the local time zone is a fixed offset in      *)
(* seconds east of UTC.                                                    *)
(***************************************************************************)
EXTENDS Integers, Sequences, FiniteSets, TLC

VARIABLES
    cfg,          \* the parsed command line flags of main (fstat.go 1091-1130)
    zone,         \* time.Local as an offset in seconds east of UTC
    termWidth,    \* termsize.Width()
    fs,           \* the file system seen by os.Lstat: name -> stat result
    src,          \* where the path list comes from: file, STDIN or -f globs
    pc,           \* position of main
    allFilenames, \* main's allFilenames
    idx,          \* number of paths GetFileInfo's loop has consumed
    allEntries,   \* GetFileInfo's / main's allEntries
    statCalls,    \* the paths handed to os.Lstat so far, in call order
    stdout,       \* what has been written to standard output
    allRows,      \* RenderAllEntries's allRows as the output branch uses it
    stderr,       \* what has been written to standard error
    exitCode,     \* the process exit code, -1 while running
    cause,        \* the fatal exit taken, "" when none
    totals,       \* the aggregate computed by RenderAllEntries
    sortIn,       \* the entry slice handed to a sort function on its own
    sortOut       \* the sort function applied and its result in each direction

vars == <<cfg, zone, termWidth, fs, src, pc, allFilenames, idx, allEntries,
          statCalls, stdout, allRows, stderr, exitCode, cause, totals, sortIn, sortOut>>

(***************************************************************************)
(* Byte strings                                                            *)
(***************************************************************************)

\* the printable ASCII characters in code order, from 32 to 126; a space stands
\* in the places of the double quote (34), the backslash (92) and the
\* backquote (96), which are written as numbers where the program uses them
Ascii == " ! #$%&'()*+,-./0123456789:;<=>?@ABCDEFGHIJKLMNOPQRSTUVWXYZ[ ]^_ abcdefghijklmnopqrstuvwxyz{|}~"

\* byte code of a one-character string: 31 + its first place in Ascii
Ord(c) ==
    31 + (CHOOSE i \in 1..Len(Ascii) :
              SubSeq(Ascii, i, i) = c /\ \A j \in 1..(i - 1) : SubSeq(Ascii, j, j) # c)

\* the byte sequence of a string literal
B(s) == [i \in 1..Len(s) |-> Ord(SubSeq(s, i, i))]

Min(a, b) == IF a < b THEN a ELSE b

\* F(v), where v is worked out once and for all uses of it in F
With(v, F(_)) == CHOOSE y \in {F(x) : x \in {v}} : TRUE

\* Go's s < t on strings: lexicographic on bytes, a proper prefix is smaller
RECURSIVE StrLess(_, _)
StrLess(s, t) ==
    IF t = <<>> THEN FALSE
    ELSE IF s = <<>> THEN TRUE
    ELSE IF s[1] # t[1] THEN s[1] < t[1]
    ELSE StrLess(Tail(s), Tail(t))

\* strings.Contains(s, sub)
Contains(s, sub) ==
    \E i \in 1..(Len(s) - Len(sub) + 1) : SubSeq(s, i, i + Len(sub) - 1) = sub

\* s[:n] for n <= len(s)
Prefix(s, n) == SubSeq(s, 1, n)

\* fmt.Sprintf("%d", n) for n >= 0
RECURSIVE Itoa(_)
Itoa(n) == IF n < 10 THEN <<48 + n>> ELSE Itoa(n \div 10) \o <<48 + (n % 10)>>

\* n >= 0 printed in at least w decimal digits, zero padded
RECURSIVE Pad(_, _)
Pad(n, w) ==
    IF n < 10 /\ w <= 1 THEN <<48 + n>> ELSE Pad(n \div 10, w - 1) \o <<48 + (n % 10)>>

\* appendInt of package time: x in at least width digits, after a '-' when
\* it is negative
appendInt(x, width) == IF x < 0 THEN <<45>> \o Pad(-x, width) ELSE Pad(x, width)

IsDigit(c) == c >= 48 /\ c <= 57

\* value of a string of decimal digits
RECURSIVE Atoi(_)
Atoi(s) == IF s = <<>> THEN 0 ELSE 10 * Atoi(SubSeq(s, 1, Len(s) - 1)) + (s[Len(s)] - 48)

(***************************************************************************)
(* package unicode/utf8, package unicode                                   *)
(***************************************************************************)

RuneError == 65533
MaxRune == 1114111

\* utf8.DecodeRune(s[i:]): the rune that starts at place i of s and the
\* number of its bytes; RuneError and 1 when the bytes at place i are no
\* UTF-8 (a byte that starts no rune, a rune that is cut short, written too
\* long, a surrogate or above MaxRune), RuneError and 0 at the end of s
DecodeRune(s, i) ==
    LET b(n) == IF i + n <= Len(s) THEN s[i + n] ELSE 0
        cont(n) == b(n) >= 128 /\ b(n) <= 191
        bad == [r |-> RuneError, size |-> 1]
    IN  IF i > Len(s) THEN [r |-> RuneError, size |-> 0]
        ELSE IF s[i] < 128 THEN [r |-> s[i], size |-> 1]
        ELSE IF s[i] >= 194 /\ s[i] <= 223
             THEN (IF cont(1) THEN [r |-> (s[i] - 192) * 64 + (b(1) - 128), size |-> 2]
                   ELSE bad)
        ELSE IF s[i] >= 224 /\ s[i] <= 239
             THEN (IF /\ b(1) >= (IF s[i] = 224 THEN 160 ELSE 128)
                      /\ b(1) <= (IF s[i] = 237 THEN 159 ELSE 191)
                      /\ cont(2)
                   THEN [r |-> (s[i] - 224) * 4096 + (b(1) - 128) * 64 + (b(2) - 128),
                         size |-> 3]
                   ELSE bad)
        ELSE IF s[i] >= 240 /\ s[i] <= 244
             THEN (IF /\ b(1) >= (IF s[i] = 240 THEN 144 ELSE 128)
                      /\ b(1) <= (IF s[i] = 244 THEN 143 ELSE 191)
                      /\ cont(2)
                      /\ cont(3)
                   THEN [r |-> (s[i] - 240) * 262144 + (b(1) - 128) * 4096
                                + (b(2) - 128) * 64 + (b(3) - 128),
                         size |-> 4]
                   ELSE bad)
        ELSE bad

\* utf8.AppendRune: the bytes of the rune r, those of RuneError for a
\* surrogate and for a number that is no rune
EncodeRune(r) ==
    IF r < 0 \/ r > MaxRune \/ (r >= 55296 /\ r <= 57343) THEN <<239, 191, 189>>
    ELSE IF r < 128 THEN <<r>>
    ELSE IF r < 2048 THEN <<192 + (r \div 64), 128 + (r % 64)>>
    ELSE IF r < 65536
         THEN <<224 + (r \div 4096), 128 + ((r \div 64) % 64), 128 + (r % 64)>>
    ELSE <<240 + (r \div 262144), 128 + ((r \div 4096) % 64), 128 + ((r \div 64) % 64),
           128 + (r % 64)>>

\* the rune r is one of lo, lo + stride, ... up to hi of the range t, which
\* is <<lo, hi, stride>> or <<lo, hi, stride, delta>>
InRange(t, r) == r >= t[1] /\ r <= t[2] /\ (r - t[1]) % t[3] = 0

\* unicode.Is(rangeTab, r)
Is(ranges, r) == \E t \in ranges : InRange(t, r)

\* unicode.To: the rune that the ranges <<lo, hi, stride, delta>> of table
\* map r to, r itself when none does
To(table, r) ==
    IF \E t \in table : InRange(t, r) THEN r + (CHOOSE t \in table : InRange(t, r))[4] ELSE r

\* unicode.IsSpace: the white space of Unicode
IsSpace(r) ==
    \/ r \in {9, 10, 11, 12, 13, 32, 133, 160, 5760, 8232, 8233, 8239, 8287, 12288}
    \/ (r >= 8192 /\ r <= 8202)

\* unicode.CaseRanges as unicode.ToLower reads it: the lower case of the runes
\* lo, lo + stride, ... up to hi is the rune + delta (Unicode 15.0.0, the
\* runes from 128 on)
CaseRanges ==
    {<<192, 214, 1, 32>>, <<216, 222, 1, 32>>, <<256, 302, 2, 1>>, <<304, 304, 1, -199>>,
     <<306, 310, 2, 1>>, <<313, 327, 2, 1>>, <<330, 374, 2, 1>>, <<376, 376, 1, -121>>,
     <<377, 381, 2, 1>>, <<385, 385, 1, 210>>, <<386, 388, 2, 1>>, <<390, 390, 1, 206>>,
     <<391, 391, 1, 1>>, <<393, 394, 1, 205>>, <<395, 395, 1, 1>>, <<398, 398, 1, 79>>,
     <<399, 399, 1, 202>>, <<400, 400, 1, 203>>, <<401, 401, 1, 1>>, <<403, 403, 1, 205>>,
     <<404, 404, 1, 207>>, <<406, 406, 1, 211>>, <<407, 407, 1, 209>>, <<408, 408, 1, 1>>,
     <<412, 412, 1, 211>>, <<413, 413, 1, 213>>, <<415, 415, 1, 214>>, <<416, 420, 2, 1>>,
     <<422, 422, 1, 218>>, <<423, 423, 1, 1>>, <<425, 425, 1, 218>>, <<428, 428, 1, 1>>,
     <<430, 430, 1, 218>>, <<431, 431, 1, 1>>, <<433, 434, 1, 217>>, <<435, 437, 2, 1>>,
     <<439, 439, 1, 219>>, <<440, 440, 1, 1>>, <<444, 444, 1, 1>>, <<452, 452, 1, 2>>,
     <<453, 453, 1, 1>>, <<455, 455, 1, 2>>, <<456, 456, 1, 1>>, <<458, 458, 1, 2>>,
     <<459, 475, 2, 1>>, <<478, 494, 2, 1>>, <<497, 497, 1, 2>>, <<498, 500, 2, 1>>,
     <<502, 502, 1, -97>>, <<503, 503, 1, -56>>, <<504, 542, 2, 1>>, <<544, 544, 1, -130>>,
     <<546, 562, 2, 1>>, <<570, 570, 1, 10795>>, <<571, 571, 1, 1>>, <<573, 573, 1, -163>>,
     <<574, 574, 1, 10792>>, <<577, 577, 1, 1>>, <<579, 579, 1, -195>>, <<580, 580, 1, 69>>,
     <<581, 581, 1, 71>>, <<582, 590, 2, 1>>, <<880, 882, 2, 1>>, <<886, 886, 1, 1>>,
     <<895, 895, 1, 116>>, <<902, 902, 1, 38>>, <<904, 906, 1, 37>>, <<908, 908, 1, 64>>,
     <<910, 911, 1, 63>>, <<913, 929, 1, 32>>, <<931, 939, 1, 32>>, <<975, 975, 1, 8>>,
     <<984, 1006, 2, 1>>, <<1012, 1012, 1, -60>>, <<1015, 1015, 1, 1>>, <<1017, 1017, 1, -7>>,
     <<1018, 1018, 1, 1>>, <<1021, 1023, 1, -130>>, <<1024, 1039, 1, 80>>, <<1040, 1071, 1, 32>>,
     <<1120, 1152, 2, 1>>, <<1162, 1214, 2, 1>>, <<1216, 1216, 1, 15>>, <<1217, 1229, 2, 1>>,
     <<1232, 1326, 2, 1>>, <<1329, 1366, 1, 48>>, <<4256, 4293, 1, 7264>>, <<4295, 4295, 1, 7264>>,
     <<4301, 4301, 1, 7264>>, <<5024, 5103, 1, 38864>>, <<5104, 5109, 1, 8>>,
     <<7312, 7354, 1, -3008>>, <<7357, 7359, 1, -3008>>, <<7680, 7828, 2, 1>>,
     <<7838, 7838, 1, -7615>>, <<7840, 7934, 2, 1>>, <<7944, 7951, 1, -8>>, <<7960, 7965, 1, -8>>,
     <<7976, 7983, 1, -8>>, <<7992, 7999, 1, -8>>, <<8008, 8013, 1, -8>>, <<8025, 8031, 2, -8>>,
     <<8040, 8047, 1, -8>>, <<8072, 8079, 1, -8>>, <<8088, 8095, 1, -8>>, <<8104, 8111, 1, -8>>,
     <<8120, 8121, 1, -8>>, <<8122, 8123, 1, -74>>, <<8124, 8124, 1, -9>>, <<8136, 8139, 1, -86>>,
     <<8140, 8140, 1, -9>>, <<8152, 8153, 1, -8>>, <<8154, 8155, 1, -100>>, <<8168, 8169, 1, -8>>,
     <<8170, 8171, 1, -112>>, <<8172, 8172, 1, -7>>, <<8184, 8185, 1, -128>>,
     <<8186, 8187, 1, -126>>, <<8188, 8188, 1, -9>>, <<8486, 8486, 1, -7517>>,
     <<8490, 8490, 1, -8383>>, <<8491, 8491, 1, -8262>>, <<8498, 8498, 1, 28>>,
     <<8544, 8559, 1, 16>>, <<8579, 8579, 1, 1>>, <<9398, 9423, 1, 26>>, <<11264, 11311, 1, 48>>,
     <<11360, 11360, 1, 1>>, <<11362, 11362, 1, -10743>>, <<11363, 11363, 1, -3814>>,
     <<11364, 11364, 1, -10727>>, <<11367, 11371, 2, 1>>, <<11373, 11373, 1, -10780>>,
     <<11374, 11374, 1, -10749>>, <<11375, 11375, 1, -10783>>, <<11376, 11376, 1, -10782>>,
     <<11378, 11378, 1, 1>>, <<11381, 11381, 1, 1>>, <<11390, 11391, 1, -10815>>,
     <<11392, 11490, 2, 1>>, <<11499, 11501, 2, 1>>, <<11506, 11506, 1, 1>>, <<42560, 42604, 2, 1>>,
     <<42624, 42650, 2, 1>>, <<42786, 42798, 2, 1>>, <<42802, 42862, 2, 1>>, <<42873, 42875, 2, 1>>,
     <<42877, 42877, 1, -35332>>, <<42878, 42886, 2, 1>>, <<42891, 42891, 1, 1>>,
     <<42893, 42893, 1, -42280>>, <<42896, 42898, 2, 1>>, <<42902, 42920, 2, 1>>,
     <<42922, 42922, 1, -42308>>, <<42923, 42923, 1, -42319>>, <<42924, 42924, 1, -42315>>,
     <<42925, 42925, 1, -42305>>, <<42926, 42926, 1, -42308>>, <<42928, 42928, 1, -42258>>,
     <<42929, 42929, 1, -42282>>, <<42930, 42930, 1, -42261>>, <<42931, 42931, 1, 928>>,
     <<42932, 42946, 2, 1>>, <<42948, 42948, 1, -48>>, <<42949, 42949, 1, -42307>>,
     <<42950, 42950, 1, -35384>>, <<42951, 42953, 2, 1>>, <<42960, 42960, 1, 1>>,
     <<42966, 42968, 2, 1>>, <<42997, 42997, 1, 1>>, <<65313, 65338, 1, 32>>,
     <<66560, 66599, 1, 40>>, <<66736, 66771, 1, 40>>, <<66928, 66938, 1, 39>>,
     <<66940, 66954, 1, 39>>, <<66956, 66962, 1, 39>>, <<66964, 66965, 1, 39>>,
     <<68736, 68786, 1, 64>>, <<71840, 71871, 1, 32>>, <<93760, 93791, 1, 32>>,
     <<125184, 125217, 1, 34>>}

\* the simple case folding of Unicode 15.0.0 (CaseFolding.txt, status C and S)
\* that unicode.SimpleFold walks: the runes lo, lo + stride, ... up to hi fold
\* to the rune + delta
CaseFolding ==
    {<<65, 90, 1, 32>>, <<181, 181, 1, 775>>, <<192, 214, 1, 32>>, <<216, 222, 1, 32>>,
     <<256, 302, 2, 1>>, <<306, 310, 2, 1>>, <<313, 327, 2, 1>>, <<330, 374, 2, 1>>,
     <<376, 376, 1, -121>>, <<377, 381, 2, 1>>, <<383, 383, 1, -268>>, <<385, 385, 1, 210>>,
     <<386, 388, 2, 1>>, <<390, 390, 1, 206>>, <<391, 391, 1, 1>>, <<393, 394, 1, 205>>,
     <<395, 395, 1, 1>>, <<398, 398, 1, 79>>, <<399, 399, 1, 202>>, <<400, 400, 1, 203>>,
     <<401, 401, 1, 1>>, <<403, 403, 1, 205>>, <<404, 404, 1, 207>>, <<406, 406, 1, 211>>,
     <<407, 407, 1, 209>>, <<408, 408, 1, 1>>, <<412, 412, 1, 211>>, <<413, 413, 1, 213>>,
     <<415, 415, 1, 214>>, <<416, 420, 2, 1>>, <<422, 422, 1, 218>>, <<423, 423, 1, 1>>,
     <<425, 425, 1, 218>>, <<428, 428, 1, 1>>, <<430, 430, 1, 218>>, <<431, 431, 1, 1>>,
     <<433, 434, 1, 217>>, <<435, 437, 2, 1>>, <<439, 439, 1, 219>>, <<440, 440, 1, 1>>,
     <<444, 444, 1, 1>>, <<452, 452, 1, 2>>, <<453, 453, 1, 1>>, <<455, 455, 1, 2>>,
     <<456, 456, 1, 1>>, <<458, 458, 1, 2>>, <<459, 475, 2, 1>>, <<478, 494, 2, 1>>,
     <<497, 497, 1, 2>>, <<498, 500, 2, 1>>, <<502, 502, 1, -97>>, <<503, 503, 1, -56>>,
     <<504, 542, 2, 1>>, <<544, 544, 1, -130>>, <<546, 562, 2, 1>>, <<570, 570, 1, 10795>>,
     <<571, 571, 1, 1>>, <<573, 573, 1, -163>>, <<574, 574, 1, 10792>>, <<577, 577, 1, 1>>,
     <<579, 579, 1, -195>>, <<580, 580, 1, 69>>, <<581, 581, 1, 71>>, <<582, 590, 2, 1>>,
     <<837, 837, 1, 116>>, <<880, 882, 2, 1>>, <<886, 886, 1, 1>>, <<895, 895, 1, 116>>,
     <<902, 902, 1, 38>>, <<904, 906, 1, 37>>, <<908, 908, 1, 64>>, <<910, 911, 1, 63>>,
     <<913, 929, 1, 32>>, <<931, 939, 1, 32>>, <<962, 962, 1, 1>>, <<975, 975, 1, 8>>,
     <<976, 976, 1, -30>>, <<977, 977, 1, -25>>, <<981, 981, 1, -15>>, <<982, 982, 1, -22>>,
     <<984, 1006, 2, 1>>, <<1008, 1008, 1, -54>>, <<1009, 1009, 1, -48>>, <<1012, 1012, 1, -60>>,
     <<1013, 1013, 1, -64>>, <<1015, 1015, 1, 1>>, <<1017, 1017, 1, -7>>, <<1018, 1018, 1, 1>>,
     <<1021, 1023, 1, -130>>, <<1024, 1039, 1, 80>>, <<1040, 1071, 1, 32>>, <<1120, 1152, 2, 1>>,
     <<1162, 1214, 2, 1>>, <<1216, 1216, 1, 15>>, <<1217, 1229, 2, 1>>, <<1232, 1326, 2, 1>>,
     <<1329, 1366, 1, 48>>, <<4256, 4293, 1, 7264>>, <<4295, 4295, 1, 7264>>,
     <<4301, 4301, 1, 7264>>, <<5112, 5117, 1, -8>>, <<7296, 7296, 1, -6222>>,
     <<7297, 7297, 1, -6221>>, <<7298, 7298, 1, -6212>>, <<7299, 7300, 1, -6210>>,
     <<7301, 7301, 1, -6211>>, <<7302, 7302, 1, -6204>>, <<7303, 7303, 1, -6180>>,
     <<7304, 7304, 1, 35267>>, <<7312, 7354, 1, -3008>>, <<7357, 7359, 1, -3008>>,
     <<7680, 7828, 2, 1>>, <<7835, 7835, 1, -58>>, <<7838, 7838, 1, -7615>>, <<7840, 7934, 2, 1>>,
     <<7944, 7951, 1, -8>>, <<7960, 7965, 1, -8>>, <<7976, 7983, 1, -8>>, <<7992, 7999, 1, -8>>,
     <<8008, 8013, 1, -8>>, <<8025, 8031, 2, -8>>, <<8040, 8047, 1, -8>>, <<8072, 8079, 1, -8>>,
     <<8088, 8095, 1, -8>>, <<8104, 8111, 1, -8>>, <<8120, 8121, 1, -8>>, <<8122, 8123, 1, -74>>,
     <<8124, 8124, 1, -9>>, <<8126, 8126, 1, -7173>>, <<8136, 8139, 1, -86>>, <<8140, 8140, 1, -9>>,
     <<8152, 8153, 1, -8>>, <<8154, 8155, 1, -100>>, <<8168, 8169, 1, -8>>, <<8170, 8171, 1, -112>>,
     <<8172, 8172, 1, -7>>, <<8184, 8185, 1, -128>>, <<8186, 8187, 1, -126>>, <<8188, 8188, 1, -9>>,
     <<8486, 8486, 1, -7517>>, <<8490, 8490, 1, -8383>>, <<8491, 8491, 1, -8262>>,
     <<8498, 8498, 1, 28>>, <<8544, 8559, 1, 16>>, <<8579, 8579, 1, 1>>, <<9398, 9423, 1, 26>>,
     <<11264, 11311, 1, 48>>, <<11360, 11360, 1, 1>>, <<11362, 11362, 1, -10743>>,
     <<11363, 11363, 1, -3814>>, <<11364, 11364, 1, -10727>>, <<11367, 11371, 2, 1>>,
     <<11373, 11373, 1, -10780>>, <<11374, 11374, 1, -10749>>, <<11375, 11375, 1, -10783>>,
     <<11376, 11376, 1, -10782>>, <<11378, 11378, 1, 1>>, <<11381, 11381, 1, 1>>,
     <<11390, 11391, 1, -10815>>, <<11392, 11490, 2, 1>>, <<11499, 11501, 2, 1>>,
     <<11506, 11506, 1, 1>>, <<42560, 42604, 2, 1>>, <<42624, 42650, 2, 1>>, <<42786, 42798, 2, 1>>,
     <<42802, 42862, 2, 1>>, <<42873, 42875, 2, 1>>, <<42877, 42877, 1, -35332>>,
     <<42878, 42886, 2, 1>>, <<42891, 42891, 1, 1>>, <<42893, 42893, 1, -42280>>,
     <<42896, 42898, 2, 1>>, <<42902, 42920, 2, 1>>, <<42922, 42922, 1, -42308>>,
     <<42923, 42923, 1, -42319>>, <<42924, 42924, 1, -42315>>, <<42925, 42925, 1, -42305>>,
     <<42926, 42926, 1, -42308>>, <<42928, 42928, 1, -42258>>, <<42929, 42929, 1, -42282>>,
     <<42930, 42930, 1, -42261>>, <<42931, 42931, 1, 928>>, <<42932, 42946, 2, 1>>,
     <<42948, 42948, 1, -48>>, <<42949, 42949, 1, -42307>>, <<42950, 42950, 1, -35384>>,
     <<42951, 42953, 2, 1>>, <<42960, 42960, 1, 1>>, <<42966, 42968, 2, 1>>, <<42997, 42997, 1, 1>>,
     <<43888, 43967, 1, -38864>>, <<65313, 65338, 1, 32>>, <<66560, 66599, 1, 40>>,
     <<66736, 66771, 1, 40>>, <<66928, 66938, 1, 39>>, <<66940, 66954, 1, 39>>,
     <<66956, 66962, 1, 39>>, <<66964, 66965, 1, 39>>, <<68736, 68786, 1, 64>>,
     <<71840, 71871, 1, 32>>, <<93760, 93791, 1, 32>>, <<125184, 125217, 1, 34>>}

\* unicode.ToLower
unicodeToLower(r) ==
    IF r < 128 THEN (IF r >= 65 /\ r <= 90 THEN r + 32 ELSE r) ELSE To(CaseRanges, r)

\* strings.ToLower: the lower case of each rune of s; a byte that is no UTF-8
\* becomes the three bytes of RuneError
RECURSIVE ToLower(_)
ToLower(s) ==
    IF s = <<>> THEN <<>>
    ELSE EncodeRune(unicodeToLower(DecodeRune(s, 1).r))
         \o ToLower(SubSeq(s, DecodeRune(s, 1).size + 1, Len(s)))

\* unicode.Categories: the ranges <<lo, hi, stride>> of the general categories
\* of two letters (Unicode 15.0.0); the names are given as bytes
Categories ==
    \* Cc
    (<<67, 99>> :>
        {<<0, 31, 1>>, <<127, 159, 1>>})
    \* Cf
    @@ (<<67, 102>> :>
        {<<173, 173, 1>>, <<1536, 1541, 1>>, <<1564, 1564, 1>>, <<1757, 1757, 1>>,
         <<1807, 1807, 1>>, <<2192, 2193, 1>>, <<2274, 2274, 1>>, <<6158, 6158, 1>>,
         <<8203, 8207, 1>>, <<8234, 8238, 1>>, <<8288, 8292, 1>>, <<8294, 8303, 1>>,
         <<65279, 65279, 1>>, <<65529, 65531, 1>>, <<69821, 69821, 1>>, <<69837, 69837, 1>>,
         <<78896, 78911, 1>>, <<113824, 113827, 1>>, <<119155, 119162, 1>>, <<917505, 917505, 1>>,
         <<917536, 917631, 1>>})
    \* Co
    @@ (<<67, 111>> :>
        {<<57344, 63743, 1>>, <<983040, 1048573, 1>>, <<1048576, 1114109, 1>>})
    \* Cs
    @@ (<<67, 115>> :>
        {<<55296, 57343, 1>>})
    \* Ll
    @@ (<<76, 108>> :>
        {<<97, 122, 1>>, <<181, 181, 1>>, <<223, 246, 1>>, <<248, 255, 1>>, <<257, 309, 2>>,
         <<311, 312, 1>>, <<314, 326, 2>>, <<328, 329, 1>>, <<331, 375, 2>>, <<378, 378, 1>>,
         <<380, 380, 1>>, <<382, 384, 1>>, <<387, 387, 1>>, <<389, 389, 1>>, <<392, 392, 1>>,
         <<396, 397, 1>>, <<402, 402, 1>>, <<405, 405, 1>>, <<409, 411, 1>>, <<414, 414, 1>>,
         <<417, 421, 2>>, <<424, 424, 1>>, <<426, 427, 1>>, <<429, 429, 1>>, <<432, 432, 1>>,
         <<436, 436, 1>>, <<438, 438, 1>>, <<441, 442, 1>>, <<445, 447, 1>>, <<454, 460, 3>>,
         <<462, 474, 2>>, <<476, 477, 1>>, <<479, 493, 2>>, <<495, 496, 1>>, <<499, 499, 1>>,
         <<501, 501, 1>>, <<505, 561, 2>>, <<563, 569, 1>>, <<572, 572, 1>>, <<575, 576, 1>>,
         <<578, 578, 1>>, <<583, 589, 2>>, <<591, 659, 1>>, <<661, 687, 1>>, <<881, 881, 1>>,
         <<883, 883, 1>>, <<887, 887, 1>>, <<891, 893, 1>>, <<912, 912, 1>>, <<940, 974, 1>>,
         <<976, 977, 1>>, <<981, 983, 1>>, <<985, 1005, 2>>, <<1007, 1011, 1>>, <<1013, 1013, 1>>,
         <<1016, 1016, 1>>, <<1019, 1020, 1>>, <<1072, 1119, 1>>, <<1121, 1153, 2>>,
         <<1163, 1215, 2>>, <<1218, 1228, 2>>, <<1230, 1231, 1>>, <<1233, 1327, 2>>,
         <<1376, 1416, 1>>, <<4304, 4346, 1>>, <<4349, 4351, 1>>, <<5112, 5117, 1>>,
         <<7296, 7304, 1>>, <<7424, 7467, 1>>, <<7531, 7543, 1>>, <<7545, 7578, 1>>,
         <<7681, 7827, 2>>, <<7829, 7837, 1>>, <<7839, 7933, 2>>, <<7935, 7943, 1>>,
         <<7952, 7957, 1>>, <<7968, 7975, 1>>, <<7984, 7991, 1>>, <<8000, 8005, 1>>,
         <<8016, 8023, 1>>, <<8032, 8039, 1>>, <<8048, 8061, 1>>, <<8064, 8071, 1>>,
         <<8080, 8087, 1>>, <<8096, 8103, 1>>, <<8112, 8116, 1>>, <<8118, 8119, 1>>,
         <<8126, 8126, 1>>, <<8130, 8132, 1>>, <<8134, 8135, 1>>, <<8144, 8147, 1>>,
         <<8150, 8151, 1>>, <<8160, 8167, 1>>, <<8178, 8180, 1>>, <<8182, 8183, 1>>,
         <<8458, 8458, 1>>, <<8462, 8463, 1>>, <<8467, 8467, 1>>, <<8495, 8505, 5>>,
         <<8508, 8509, 1>>, <<8518, 8521, 1>>, <<8526, 8526, 1>>, <<8580, 8580, 1>>,
         <<11312, 11359, 1>>, <<11361, 11361, 1>>, <<11365, 11366, 1>>, <<11368, 11372, 2>>,
         <<11377, 11377, 1>>, <<11379, 11380, 1>>, <<11382, 11387, 1>>, <<11393, 11489, 2>>,
         <<11491, 11492, 1>>, <<11500, 11500, 1>>, <<11502, 11502, 1>>, <<11507, 11507, 1>>,
         <<11520, 11557, 1>>, <<11559, 11559, 1>>, <<11565, 11565, 1>>, <<42561, 42605, 2>>,
         <<42625, 42651, 2>>, <<42787, 42797, 2>>, <<42799, 42801, 1>>, <<42803, 42863, 2>>,
         <<42865, 42872, 1>>, <<42874, 42874, 1>>, <<42876, 42876, 1>>, <<42879, 42887, 2>>,
         <<42892, 42892, 1>>, <<42894, 42894, 1>>, <<42897, 42897, 1>>, <<42899, 42901, 1>>,
         <<42903, 42921, 2>>, <<42927, 42927, 1>>, <<42933, 42947, 2>>, <<42952, 42952, 1>>,
         <<42954, 42954, 1>>, <<42961, 42969, 2>>, <<42998, 42998, 1>>, <<43002, 43002, 1>>,
         <<43824, 43866, 1>>, <<43872, 43880, 1>>, <<43888, 43967, 1>>, <<64256, 64262, 1>>,
         <<64275, 64279, 1>>, <<65345, 65370, 1>>, <<66600, 66639, 1>>, <<66776, 66811, 1>>,
         <<66967, 66977, 1>>, <<66979, 66993, 1>>, <<66995, 67001, 1>>, <<67003, 67004, 1>>,
         <<68800, 68850, 1>>, <<71872, 71903, 1>>, <<93792, 93823, 1>>, <<119834, 119859, 1>>,
         <<119886, 119892, 1>>, <<119894, 119911, 1>>, <<119938, 119963, 1>>, <<119990, 119993, 1>>,
         <<119995, 119995, 1>>, <<119997, 120003, 1>>, <<120005, 120015, 1>>, <<120042, 120067, 1>>,
         <<120094, 120119, 1>>, <<120146, 120171, 1>>, <<120198, 120223, 1>>, <<120250, 120275, 1>>,
         <<120302, 120327, 1>>, <<120354, 120379, 1>>, <<120406, 120431, 1>>, <<120458, 120485, 1>>,
         <<120514, 120538, 1>>, <<120540, 120545, 1>>, <<120572, 120596, 1>>, <<120598, 120603, 1>>,
         <<120630, 120654, 1>>, <<120656, 120661, 1>>, <<120688, 120712, 1>>, <<120714, 120719, 1>>,
         <<120746, 120770, 1>>, <<120772, 120777, 1>>, <<120779, 120779, 1>>, <<122624, 122633, 1>>,
         <<122635, 122654, 1>>, <<122661, 122666, 1>>, <<125218, 125251, 1>>})
    \* Lm
    @@ (<<76, 109>> :>
        {<<688, 705, 1>>, <<710, 721, 1>>, <<736, 740, 1>>, <<748, 748, 1>>, <<750, 750, 1>>,
         <<884, 884, 1>>, <<890, 890, 1>>, <<1369, 1369, 1>>, <<1600, 1600, 1>>, <<1765, 1766, 1>>,
         <<2036, 2037, 1>>, <<2042, 2042, 1>>, <<2074, 2074, 1>>, <<2084, 2084, 1>>,
         <<2088, 2088, 1>>, <<2249, 2249, 1>>, <<2417, 2417, 1>>, <<3654, 3654, 1>>,
         <<3782, 3782, 1>>, <<4348, 4348, 1>>, <<6103, 6103, 1>>, <<6211, 6211, 1>>,
         <<6823, 6823, 1>>, <<7288, 7293, 1>>, <<7468, 7530, 1>>, <<7544, 7544, 1>>,
         <<7579, 7615, 1>>, <<8305, 8305, 1>>, <<8319, 8319, 1>>, <<8336, 8348, 1>>,
         <<11388, 11389, 1>>, <<11631, 11631, 1>>, <<11823, 11823, 1>>, <<12293, 12293, 1>>,
         <<12337, 12341, 1>>, <<12347, 12347, 1>>, <<12445, 12446, 1>>, <<12540, 12542, 1>>,
         <<40981, 40981, 1>>, <<42232, 42237, 1>>, <<42508, 42508, 1>>, <<42623, 42623, 1>>,
         <<42652, 42653, 1>>, <<42775, 42783, 1>>, <<42864, 42864, 1>>, <<42888, 42888, 1>>,
         <<42994, 42996, 1>>, <<43000, 43001, 1>>, <<43471, 43471, 1>>, <<43494, 43494, 1>>,
         <<43632, 43632, 1>>, <<43741, 43741, 1>>, <<43763, 43764, 1>>, <<43868, 43871, 1>>,
         <<43881, 43881, 1>>, <<65392, 65392, 1>>, <<65438, 65439, 1>>, <<67456, 67461, 1>>,
         <<67463, 67504, 1>>, <<67506, 67514, 1>>, <<92992, 92995, 1>>, <<94099, 94111, 1>>,
         <<94176, 94177, 1>>, <<94179, 94179, 1>>, <<110576, 110579, 1>>, <<110581, 110587, 1>>,
         <<110589, 110590, 1>>, <<122928, 122989, 1>>, <<123191, 123197, 1>>, <<124139, 124139, 1>>,
         <<125259, 125259, 1>>})
    \* Lo
    @@ (<<76, 111>> :>
        {<<170, 170, 1>>, <<186, 186, 1>>, <<443, 443, 1>>, <<448, 451, 1>>, <<660, 660, 1>>,
         <<1488, 1514, 1>>, <<1519, 1522, 1>>, <<1568, 1599, 1>>, <<1601, 1610, 1>>,
         <<1646, 1647, 1>>, <<1649, 1747, 1>>, <<1749, 1749, 1>>, <<1774, 1775, 1>>,
         <<1786, 1788, 1>>, <<1791, 1791, 1>>, <<1808, 1808, 1>>, <<1810, 1839, 1>>,
         <<1869, 1957, 1>>, <<1969, 1969, 1>>, <<1994, 2026, 1>>, <<2048, 2069, 1>>,
         <<2112, 2136, 1>>, <<2144, 2154, 1>>, <<2160, 2183, 1>>, <<2185, 2190, 1>>,
         <<2208, 2248, 1>>, <<2308, 2361, 1>>, <<2365, 2365, 1>>, <<2384, 2384, 1>>,
         <<2392, 2401, 1>>, <<2418, 2432, 1>>, <<2437, 2444, 1>>, <<2447, 2448, 1>>,
         <<2451, 2472, 1>>, <<2474, 2480, 1>>, <<2482, 2482, 1>>, <<2486, 2489, 1>>,
         <<2493, 2493, 1>>, <<2510, 2510, 1>>, <<2524, 2525, 1>>, <<2527, 2529, 1>>,
         <<2544, 2545, 1>>, <<2556, 2556, 1>>, <<2565, 2570, 1>>, <<2575, 2576, 1>>,
         <<2579, 2600, 1>>, <<2602, 2608, 1>>, <<2610, 2611, 1>>, <<2613, 2614, 1>>,
         <<2616, 2617, 1>>, <<2649, 2652, 1>>, <<2654, 2654, 1>>, <<2674, 2676, 1>>,
         <<2693, 2701, 1>>, <<2703, 2705, 1>>, <<2707, 2728, 1>>, <<2730, 2736, 1>>,
         <<2738, 2739, 1>>, <<2741, 2745, 1>>, <<2749, 2749, 1>>, <<2768, 2768, 1>>,
         <<2784, 2785, 1>>, <<2809, 2809, 1>>, <<2821, 2828, 1>>, <<2831, 2832, 1>>,
         <<2835, 2856, 1>>, <<2858, 2864, 1>>, <<2866, 2867, 1>>, <<2869, 2873, 1>>,
         <<2877, 2877, 1>>, <<2908, 2909, 1>>, <<2911, 2913, 1>>, <<2929, 2929, 1>>,
         <<2947, 2947, 1>>, <<2949, 2954, 1>>, <<2958, 2960, 1>>, <<2962, 2965, 1>>,
         <<2969, 2970, 1>>, <<2972, 2972, 1>>, <<2974, 2975, 1>>, <<2979, 2980, 1>>,
         <<2984, 2986, 1>>, <<2990, 3001, 1>>, <<3024, 3024, 1>>, <<3077, 3084, 1>>,
         <<3086, 3088, 1>>, <<3090, 3112, 1>>, <<3114, 3129, 1>>, <<3133, 3133, 1>>,
         <<3160, 3162, 1>>, <<3165, 3165, 1>>, <<3168, 3169, 1>>, <<3200, 3200, 1>>,
         <<3205, 3212, 1>>, <<3214, 3216, 1>>, <<3218, 3240, 1>>, <<3242, 3251, 1>>,
         <<3253, 3257, 1>>, <<3261, 3261, 1>>, <<3293, 3294, 1>>, <<3296, 3297, 1>>,
         <<3313, 3314, 1>>, <<3332, 3340, 1>>, <<3342, 3344, 1>>, <<3346, 3386, 1>>,
         <<3389, 3389, 1>>, <<3406, 3406, 1>>, <<3412, 3414, 1>>, <<3423, 3425, 1>>,
         <<3450, 3455, 1>>, <<3461, 3478, 1>>, <<3482, 3505, 1>>, <<3507, 3515, 1>>,
         <<3517, 3517, 1>>, <<3520, 3526, 1>>, <<3585, 3632, 1>>, <<3634, 3635, 1>>,
         <<3648, 3653, 1>>, <<3713, 3714, 1>>, <<3716, 3716, 1>>, <<3718, 3722, 1>>,
         <<3724, 3747, 1>>, <<3749, 3749, 1>>, <<3751, 3760, 1>>, <<3762, 3763, 1>>,
         <<3773, 3773, 1>>, <<3776, 3780, 1>>, <<3804, 3807, 1>>, <<3840, 3840, 1>>,
         <<3904, 3911, 1>>, <<3913, 3948, 1>>, <<3976, 3980, 1>>, <<4096, 4138, 1>>,
         <<4159, 4159, 1>>, <<4176, 4181, 1>>, <<4186, 4189, 1>>, <<4193, 4193, 1>>,
         <<4197, 4198, 1>>, <<4206, 4208, 1>>, <<4213, 4225, 1>>, <<4238, 4238, 1>>,
         <<4352, 4680, 1>>, <<4682, 4685, 1>>, <<4688, 4694, 1>>, <<4696, 4696, 1>>,
         <<4698, 4701, 1>>, <<4704, 4744, 1>>, <<4746, 4749, 1>>, <<4752, 4784, 1>>,
         <<4786, 4789, 1>>, <<4792, 4798, 1>>, <<4800, 4800, 1>>, <<4802, 4805, 1>>,
         <<4808, 4822, 1>>, <<4824, 4880, 1>>, <<4882, 4885, 1>>, <<4888, 4954, 1>>,
         <<4992, 5007, 1>>, <<5121, 5740, 1>>, <<5743, 5759, 1>>, <<5761, 5786, 1>>,
         <<5792, 5866, 1>>, <<5873, 5880, 1>>, <<5888, 5905, 1>>, <<5919, 5937, 1>>,
         <<5952, 5969, 1>>, <<5984, 5996, 1>>, <<5998, 6000, 1>>, <<6016, 6067, 1>>,
         <<6108, 6108, 1>>, <<6176, 6210, 1>>, <<6212, 6264, 1>>, <<6272, 6276, 1>>,
         <<6279, 6312, 1>>, <<6314, 6314, 1>>, <<6320, 6389, 1>>, <<6400, 6430, 1>>,
         <<6480, 6509, 1>>, <<6512, 6516, 1>>, <<6528, 6571, 1>>, <<6576, 6601, 1>>,
         <<6656, 6678, 1>>, <<6688, 6740, 1>>, <<6917, 6963, 1>>, <<6981, 6988, 1>>,
         <<7043, 7072, 1>>, <<7086, 7087, 1>>, <<7098, 7141, 1>>, <<7168, 7203, 1>>,
         <<7245, 7247, 1>>, <<7258, 7287, 1>>, <<7401, 7404, 1>>, <<7406, 7411, 1>>,
         <<7413, 7414, 1>>, <<7418, 7418, 1>>, <<8501, 8504, 1>>, <<11568, 11623, 1>>,
         <<11648, 11670, 1>>, <<11680, 11686, 1>>, <<11688, 11694, 1>>, <<11696, 11702, 1>>,
         <<11704, 11710, 1>>, <<11712, 11718, 1>>, <<11720, 11726, 1>>, <<11728, 11734, 1>>,
         <<11736, 11742, 1>>, <<12294, 12294, 1>>, <<12348, 12348, 1>>, <<12353, 12438, 1>>,
         <<12447, 12447, 1>>, <<12449, 12538, 1>>, <<12543, 12543, 1>>, <<12549, 12591, 1>>,
         <<12593, 12686, 1>>, <<12704, 12735, 1>>, <<12784, 12799, 1>>, <<13312, 19903, 1>>,
         <<19968, 40980, 1>>, <<40982, 42124, 1>>, <<42192, 42231, 1>>, <<42240, 42507, 1>>,
         <<42512, 42527, 1>>, <<42538, 42539, 1>>, <<42606, 42606, 1>>, <<42656, 42725, 1>>,
         <<42895, 42895, 1>>, <<42999, 42999, 1>>, <<43003, 43009, 1>>, <<43011, 43013, 1>>,
         <<43015, 43018, 1>>, <<43020, 43042, 1>>, <<43072, 43123, 1>>, <<43138, 43187, 1>>,
         <<43250, 43255, 1>>, <<43259, 43259, 1>>, <<43261, 43262, 1>>, <<43274, 43301, 1>>,
         <<43312, 43334, 1>>, <<43360, 43388, 1>>, <<43396, 43442, 1>>, <<43488, 43492, 1>>,
         <<43495, 43503, 1>>, <<43514, 43518, 1>>, <<43520, 43560, 1>>, <<43584, 43586, 1>>,
         <<43588, 43595, 1>>, <<43616, 43631, 1>>, <<43633, 43638, 1>>, <<43642, 43642, 1>>,
         <<43646, 43695, 1>>, <<43697, 43697, 1>>, <<43701, 43702, 1>>, <<43705, 43709, 1>>,
         <<43712, 43712, 1>>, <<43714, 43714, 1>>, <<43739, 43740, 1>>, <<43744, 43754, 1>>,
         <<43762, 43762, 1>>, <<43777, 43782, 1>>, <<43785, 43790, 1>>, <<43793, 43798, 1>>,
         <<43808, 43814, 1>>, <<43816, 43822, 1>>, <<43968, 44002, 1>>, <<44032, 55203, 1>>,
         <<55216, 55238, 1>>, <<55243, 55291, 1>>, <<63744, 64109, 1>>, <<64112, 64217, 1>>,
         <<64285, 64285, 1>>, <<64287, 64296, 1>>, <<64298, 64310, 1>>, <<64312, 64316, 1>>,
         <<64318, 64318, 1>>, <<64320, 64321, 1>>, <<64323, 64324, 1>>, <<64326, 64433, 1>>,
         <<64467, 64829, 1>>, <<64848, 64911, 1>>, <<64914, 64967, 1>>, <<65008, 65019, 1>>,
         <<65136, 65140, 1>>, <<65142, 65276, 1>>, <<65382, 65391, 1>>, <<65393, 65437, 1>>,
         <<65440, 65470, 1>>, <<65474, 65479, 1>>, <<65482, 65487, 1>>, <<65490, 65495, 1>>,
         <<65498, 65500, 1>>, <<65536, 65547, 1>>, <<65549, 65574, 1>>, <<65576, 65594, 1>>,
         <<65596, 65597, 1>>, <<65599, 65613, 1>>, <<65616, 65629, 1>>, <<65664, 65786, 1>>,
         <<66176, 66204, 1>>, <<66208, 66256, 1>>, <<66304, 66335, 1>>, <<66349, 66368, 1>>,
         <<66370, 66377, 1>>, <<66384, 66421, 1>>, <<66432, 66461, 1>>, <<66464, 66499, 1>>,
         <<66504, 66511, 1>>, <<66640, 66717, 1>>, <<66816, 66855, 1>>, <<66864, 66915, 1>>,
         <<67072, 67382, 1>>, <<67392, 67413, 1>>, <<67424, 67431, 1>>, <<67584, 67589, 1>>,
         <<67592, 67592, 1>>, <<67594, 67637, 1>>, <<67639, 67640, 1>>, <<67644, 67644, 1>>,
         <<67647, 67669, 1>>, <<67680, 67702, 1>>, <<67712, 67742, 1>>, <<67808, 67826, 1>>,
         <<67828, 67829, 1>>, <<67840, 67861, 1>>, <<67872, 67897, 1>>, <<67968, 68023, 1>>,
         <<68030, 68031, 1>>, <<68096, 68096, 1>>, <<68112, 68115, 1>>, <<68117, 68119, 1>>,
         <<68121, 68149, 1>>, <<68192, 68220, 1>>, <<68224, 68252, 1>>, <<68288, 68295, 1>>,
         <<68297, 68324, 1>>, <<68352, 68405, 1>>, <<68416, 68437, 1>>, <<68448, 68466, 1>>,
         <<68480, 68497, 1>>, <<68608, 68680, 1>>, <<68864, 68899, 1>>, <<69248, 69289, 1>>,
         <<69296, 69297, 1>>, <<69376, 69404, 1>>, <<69415, 69415, 1>>, <<69424, 69445, 1>>,
         <<69488, 69505, 1>>, <<69552, 69572, 1>>, <<69600, 69622, 1>>, <<69635, 69687, 1>>,
         <<69745, 69746, 1>>, <<69749, 69749, 1>>, <<69763, 69807, 1>>, <<69840, 69864, 1>>,
         <<69891, 69926, 1>>, <<69956, 69956, 1>>, <<69959, 69959, 1>>, <<69968, 70002, 1>>,
         <<70006, 70006, 1>>, <<70019, 70066, 1>>, <<70081, 70084, 1>>, <<70106, 70106, 1>>,
         <<70108, 70108, 1>>, <<70144, 70161, 1>>, <<70163, 70187, 1>>, <<70207, 70208, 1>>,
         <<70272, 70278, 1>>, <<70280, 70280, 1>>, <<70282, 70285, 1>>, <<70287, 70301, 1>>,
         <<70303, 70312, 1>>, <<70320, 70366, 1>>, <<70405, 70412, 1>>, <<70415, 70416, 1>>,
         <<70419, 70440, 1>>, <<70442, 70448, 1>>, <<70450, 70451, 1>>, <<70453, 70457, 1>>,
         <<70461, 70461, 1>>, <<70480, 70480, 1>>, <<70493, 70497, 1>>, <<70656, 70708, 1>>,
         <<70727, 70730, 1>>, <<70751, 70753, 1>>, <<70784, 70831, 1>>, <<70852, 70853, 1>>,
         <<70855, 70855, 1>>, <<71040, 71086, 1>>, <<71128, 71131, 1>>, <<71168, 71215, 1>>,
         <<71236, 71236, 1>>, <<71296, 71338, 1>>, <<71352, 71352, 1>>, <<71424, 71450, 1>>,
         <<71488, 71494, 1>>, <<71680, 71723, 1>>, <<71935, 71942, 1>>, <<71945, 71945, 1>>,
         <<71948, 71955, 1>>, <<71957, 71958, 1>>, <<71960, 71983, 1>>, <<71999, 71999, 1>>,
         <<72001, 72001, 1>>, <<72096, 72103, 1>>, <<72106, 72144, 1>>, <<72161, 72161, 1>>,
         <<72163, 72163, 1>>, <<72192, 72192, 1>>, <<72203, 72242, 1>>, <<72250, 72250, 1>>,
         <<72272, 72272, 1>>, <<72284, 72329, 1>>, <<72349, 72349, 1>>, <<72368, 72440, 1>>,
         <<72704, 72712, 1>>, <<72714, 72750, 1>>, <<72768, 72768, 1>>, <<72818, 72847, 1>>,
         <<72960, 72966, 1>>, <<72968, 72969, 1>>, <<72971, 73008, 1>>, <<73030, 73030, 1>>,
         <<73056, 73061, 1>>, <<73063, 73064, 1>>, <<73066, 73097, 1>>, <<73112, 73112, 1>>,
         <<73440, 73458, 1>>, <<73474, 73474, 1>>, <<73476, 73488, 1>>, <<73490, 73523, 1>>,
         <<73648, 73648, 1>>, <<73728, 74649, 1>>, <<74880, 75075, 1>>, <<77712, 77808, 1>>,
         <<77824, 78895, 1>>, <<78913, 78918, 1>>, <<82944, 83526, 1>>, <<92160, 92728, 1>>,
         <<92736, 92766, 1>>, <<92784, 92862, 1>>, <<92880, 92909, 1>>, <<92928, 92975, 1>>,
         <<93027, 93047, 1>>, <<93053, 93071, 1>>, <<93952, 94026, 1>>, <<94032, 94032, 1>>,
         <<94208, 100343, 1>>, <<100352, 101589, 1>>, <<101632, 101640, 1>>, <<110592, 110882, 1>>,
         <<110898, 110898, 1>>, <<110928, 110930, 1>>, <<110933, 110933, 1>>, <<110948, 110951, 1>>,
         <<110960, 111355, 1>>, <<113664, 113770, 1>>, <<113776, 113788, 1>>, <<113792, 113800, 1>>,
         <<113808, 113817, 1>>, <<122634, 122634, 1>>, <<123136, 123180, 1>>, <<123214, 123214, 1>>,
         <<123536, 123565, 1>>, <<123584, 123627, 1>>, <<124112, 124138, 1>>, <<124896, 124902, 1>>,
         <<124904, 124907, 1>>, <<124909, 124910, 1>>, <<124912, 124926, 1>>, <<124928, 125124, 1>>,
         <<126464, 126467, 1>>, <<126469, 126495, 1>>, <<126497, 126498, 1>>, <<126500, 126500, 1>>,
         <<126503, 126503, 1>>, <<126505, 126514, 1>>, <<126516, 126519, 1>>, <<126521, 126521, 1>>,
         <<126523, 126523, 1>>, <<126530, 126530, 1>>, <<126535, 126539, 2>>, <<126541, 126543, 1>>,
         <<126545, 126546, 1>>, <<126548, 126548, 1>>, <<126551, 126559, 2>>, <<126561, 126562, 1>>,
         <<126564, 126564, 1>>, <<126567, 126570, 1>>, <<126572, 126578, 1>>, <<126580, 126583, 1>>,
         <<126585, 126588, 1>>, <<126590, 126590, 1>>, <<126592, 126601, 1>>, <<126603, 126619, 1>>,
         <<126625, 126627, 1>>, <<126629, 126633, 1>>, <<126635, 126651, 1>>, <<131072, 173791, 1>>,
         <<173824, 177977, 1>>, <<177984, 178205, 1>>, <<178208, 183969, 1>>, <<183984, 191456, 1>>,
         <<194560, 195101, 1>>, <<196608, 201546, 1>>, <<201552, 205743, 1>>})
    \* Lt
    @@ (<<76, 116>> :>
        {<<453, 459, 3>>, <<498, 498, 1>>, <<8072, 8079, 1>>, <<8088, 8095, 1>>, <<8104, 8111, 1>>,
         <<8124, 8124, 1>>, <<8140, 8140, 1>>, <<8188, 8188, 1>>})
    \* Lu
    @@ (<<76, 117>> :>
        {<<65, 90, 1>>, <<192, 214, 1>>, <<216, 222, 1>>, <<256, 310, 2>>, <<313, 327, 2>>,
         <<330, 374, 2>>, <<376, 377, 1>>, <<379, 379, 1>>, <<381, 381, 1>>, <<385, 386, 1>>,
         <<388, 388, 1>>, <<390, 391, 1>>, <<393, 395, 1>>, <<398, 401, 1>>, <<403, 404, 1>>,
         <<406, 408, 1>>, <<412, 413, 1>>, <<415, 416, 1>>, <<418, 418, 1>>, <<420, 420, 1>>,
         <<422, 423, 1>>, <<425, 425, 1>>, <<428, 428, 1>>, <<430, 431, 1>>, <<433, 435, 1>>,
         <<437, 437, 1>>, <<439, 440, 1>>, <<444, 444, 1>>, <<452, 461, 3>>, <<463, 475, 2>>,
         <<478, 494, 2>>, <<497, 497, 1>>, <<500, 500, 1>>, <<502, 504, 1>>, <<506, 562, 2>>,
         <<570, 571, 1>>, <<573, 574, 1>>, <<577, 577, 1>>, <<579, 582, 1>>, <<584, 590, 2>>,
         <<880, 880, 1>>, <<882, 882, 1>>, <<886, 886, 1>>, <<895, 895, 1>>, <<902, 902, 1>>,
         <<904, 906, 1>>, <<908, 908, 1>>, <<910, 911, 1>>, <<913, 929, 1>>, <<931, 939, 1>>,
         <<975, 975, 1>>, <<978, 980, 1>>, <<984, 1006, 2>>, <<1012, 1012, 1>>, <<1015, 1015, 1>>,
         <<1017, 1018, 1>>, <<1021, 1071, 1>>, <<1120, 1152, 2>>, <<1162, 1214, 2>>,
         <<1216, 1217, 1>>, <<1219, 1229, 2>>, <<1232, 1326, 2>>, <<1329, 1366, 1>>,
         <<4256, 4293, 1>>, <<4295, 4295, 1>>, <<4301, 4301, 1>>, <<5024, 5109, 1>>,
         <<7312, 7354, 1>>, <<7357, 7359, 1>>, <<7680, 7828, 2>>, <<7838, 7934, 2>>,
         <<7944, 7951, 1>>, <<7960, 7965, 1>>, <<7976, 7983, 1>>, <<7992, 7999, 1>>,
         <<8008, 8013, 1>>, <<8025, 8031, 2>>, <<8040, 8047, 1>>, <<8120, 8123, 1>>,
         <<8136, 8139, 1>>, <<8152, 8155, 1>>, <<8168, 8172, 1>>, <<8184, 8187, 1>>,
         <<8450, 8450, 1>>, <<8455, 8455, 1>>, <<8459, 8461, 1>>, <<8464, 8466, 1>>,
         <<8469, 8469, 1>>, <<8473, 8477, 1>>, <<8484, 8488, 2>>, <<8490, 8493, 1>>,
         <<8496, 8499, 1>>, <<8510, 8511, 1>>, <<8517, 8517, 1>>, <<8579, 8579, 1>>,
         <<11264, 11311, 1>>, <<11360, 11360, 1>>, <<11362, 11364, 1>>, <<11367, 11371, 2>>,
         <<11373, 11376, 1>>, <<11378, 11378, 1>>, <<11381, 11381, 1>>, <<11390, 11392, 1>>,
         <<11394, 11490, 2>>, <<11499, 11499, 1>>, <<11501, 11501, 1>>, <<11506, 11506, 1>>,
         <<42560, 42604, 2>>, <<42624, 42650, 2>>, <<42786, 42798, 2>>, <<42802, 42862, 2>>,
         <<42873, 42873, 1>>, <<42875, 42875, 1>>, <<42877, 42878, 1>>, <<42880, 42886, 2>>,
         <<42891, 42891, 1>>, <<42893, 42893, 1>>, <<42896, 42896, 1>>, <<42898, 42898, 1>>,
         <<42902, 42920, 2>>, <<42922, 42926, 1>>, <<42928, 42932, 1>>, <<42934, 42946, 2>>,
         <<42948, 42951, 1>>, <<42953, 42953, 1>>, <<42960, 42960, 1>>, <<42966, 42966, 1>>,
         <<42968, 42968, 1>>, <<42997, 42997, 1>>, <<65313, 65338, 1>>, <<66560, 66599, 1>>,
         <<66736, 66771, 1>>, <<66928, 66938, 1>>, <<66940, 66954, 1>>, <<66956, 66962, 1>>,
         <<66964, 66965, 1>>, <<68736, 68786, 1>>, <<71840, 71871, 1>>, <<93760, 93791, 1>>,
         <<119808, 119833, 1>>, <<119860, 119885, 1>>, <<119912, 119937, 1>>, <<119964, 119964, 1>>,
         <<119966, 119967, 1>>, <<119970, 119970, 1>>, <<119973, 119974, 1>>, <<119977, 119980, 1>>,
         <<119982, 119989, 1>>, <<120016, 120041, 1>>, <<120068, 120069, 1>>, <<120071, 120074, 1>>,
         <<120077, 120084, 1>>, <<120086, 120092, 1>>, <<120120, 120121, 1>>, <<120123, 120126, 1>>,
         <<120128, 120132, 1>>, <<120134, 120134, 1>>, <<120138, 120144, 1>>, <<120172, 120197, 1>>,
         <<120224, 120249, 1>>, <<120276, 120301, 1>>, <<120328, 120353, 1>>, <<120380, 120405, 1>>,
         <<120432, 120457, 1>>, <<120488, 120512, 1>>, <<120546, 120570, 1>>, <<120604, 120628, 1>>,
         <<120662, 120686, 1>>, <<120720, 120744, 1>>, <<120778, 120778, 1>>, <<125184, 125217, 1>>})
    \* Mc
    @@ (<<77, 99>> :>
        {<<2307, 2307, 1>>, <<2363, 2363, 1>>, <<2366, 2368, 1>>, <<2377, 2380, 1>>,
         <<2382, 2383, 1>>, <<2434, 2435, 1>>, <<2494, 2496, 1>>, <<2503, 2504, 1>>,
         <<2507, 2508, 1>>, <<2519, 2519, 1>>, <<2563, 2563, 1>>, <<2622, 2624, 1>>,
         <<2691, 2691, 1>>, <<2750, 2752, 1>>, <<2761, 2761, 1>>, <<2763, 2764, 1>>,
         <<2818, 2819, 1>>, <<2878, 2878, 1>>, <<2880, 2880, 1>>, <<2887, 2888, 1>>,
         <<2891, 2892, 1>>, <<2903, 2903, 1>>, <<3006, 3007, 1>>, <<3009, 3010, 1>>,
         <<3014, 3016, 1>>, <<3018, 3020, 1>>, <<3031, 3031, 1>>, <<3073, 3075, 1>>,
         <<3137, 3140, 1>>, <<3202, 3203, 1>>, <<3262, 3262, 1>>, <<3264, 3268, 1>>,
         <<3271, 3272, 1>>, <<3274, 3275, 1>>, <<3285, 3286, 1>>, <<3315, 3315, 1>>,
         <<3330, 3331, 1>>, <<3390, 3392, 1>>, <<3398, 3400, 1>>, <<3402, 3404, 1>>,
         <<3415, 3415, 1>>, <<3458, 3459, 1>>, <<3535, 3537, 1>>, <<3544, 3551, 1>>,
         <<3570, 3571, 1>>, <<3902, 3903, 1>>, <<3967, 3967, 1>>, <<4139, 4140, 1>>,
         <<4145, 4145, 1>>, <<4152, 4152, 1>>, <<4155, 4156, 1>>, <<4182, 4183, 1>>,
         <<4194, 4196, 1>>, <<4199, 4205, 1>>, <<4227, 4228, 1>>, <<4231, 4236, 1>>,
         <<4239, 4239, 1>>, <<4250, 4252, 1>>, <<5909, 5909, 1>>, <<5940, 5940, 1>>,
         <<6070, 6070, 1>>, <<6078, 6085, 1>>, <<6087, 6088, 1>>, <<6435, 6438, 1>>,
         <<6441, 6443, 1>>, <<6448, 6449, 1>>, <<6451, 6456, 1>>, <<6681, 6682, 1>>,
         <<6741, 6741, 1>>, <<6743, 6743, 1>>, <<6753, 6753, 1>>, <<6755, 6756, 1>>,
         <<6765, 6770, 1>>, <<6916, 6916, 1>>, <<6965, 6965, 1>>, <<6971, 6971, 1>>,
         <<6973, 6977, 1>>, <<6979, 6980, 1>>, <<7042, 7042, 1>>, <<7073, 7073, 1>>,
         <<7078, 7079, 1>>, <<7082, 7082, 1>>, <<7143, 7143, 1>>, <<7146, 7148, 1>>,
         <<7150, 7150, 1>>, <<7154, 7155, 1>>, <<7204, 7211, 1>>, <<7220, 7221, 1>>,
         <<7393, 7393, 1>>, <<7415, 7415, 1>>, <<12334, 12335, 1>>, <<43043, 43044, 1>>,
         <<43047, 43047, 1>>, <<43136, 43137, 1>>, <<43188, 43203, 1>>, <<43346, 43347, 1>>,
         <<43395, 43395, 1>>, <<43444, 43445, 1>>, <<43450, 43451, 1>>, <<43454, 43456, 1>>,
         <<43567, 43568, 1>>, <<43571, 43572, 1>>, <<43597, 43597, 1>>, <<43643, 43643, 1>>,
         <<43645, 43645, 1>>, <<43755, 43755, 1>>, <<43758, 43759, 1>>, <<43765, 43765, 1>>,
         <<44003, 44004, 1>>, <<44006, 44007, 1>>, <<44009, 44010, 1>>, <<44012, 44012, 1>>,
         <<69632, 69632, 1>>, <<69634, 69634, 1>>, <<69762, 69762, 1>>, <<69808, 69810, 1>>,
         <<69815, 69816, 1>>, <<69932, 69932, 1>>, <<69957, 69958, 1>>, <<70018, 70018, 1>>,
         <<70067, 70069, 1>>, <<70079, 70080, 1>>, <<70094, 70094, 1>>, <<70188, 70190, 1>>,
         <<70194, 70195, 1>>, <<70197, 70197, 1>>, <<70368, 70370, 1>>, <<70402, 70403, 1>>,
         <<70462, 70463, 1>>, <<70465, 70468, 1>>, <<70471, 70472, 1>>, <<70475, 70477, 1>>,
         <<70487, 70487, 1>>, <<70498, 70499, 1>>, <<70709, 70711, 1>>, <<70720, 70721, 1>>,
         <<70725, 70725, 1>>, <<70832, 70834, 1>>, <<70841, 70841, 1>>, <<70843, 70846, 1>>,
         <<70849, 70849, 1>>, <<71087, 71089, 1>>, <<71096, 71099, 1>>, <<71102, 71102, 1>>,
         <<71216, 71218, 1>>, <<71227, 71228, 1>>, <<71230, 71230, 1>>, <<71340, 71340, 1>>,
         <<71342, 71343, 1>>, <<71350, 71350, 1>>, <<71456, 71457, 1>>, <<71462, 71462, 1>>,
         <<71724, 71726, 1>>, <<71736, 71736, 1>>, <<71984, 71989, 1>>, <<71991, 71992, 1>>,
         <<71997, 71997, 1>>, <<72000, 72000, 1>>, <<72002, 72002, 1>>, <<72145, 72147, 1>>,
         <<72156, 72159, 1>>, <<72164, 72164, 1>>, <<72249, 72249, 1>>, <<72279, 72280, 1>>,
         <<72343, 72343, 1>>, <<72751, 72751, 1>>, <<72766, 72766, 1>>, <<72873, 72873, 1>>,
         <<72881, 72881, 1>>, <<72884, 72884, 1>>, <<73098, 73102, 1>>, <<73107, 73108, 1>>,
         <<73110, 73110, 1>>, <<73461, 73462, 1>>, <<73475, 73475, 1>>, <<73524, 73525, 1>>,
         <<73534, 73535, 1>>, <<73537, 73537, 1>>, <<94033, 94087, 1>>, <<94192, 94193, 1>>,
         <<119141, 119142, 1>>, <<119149, 119154, 1>>})
    \* Me
    @@ (<<77, 101>> :>
        {<<1160, 1161, 1>>, <<6846, 6846, 1>>, <<8413, 8416, 1>>, <<8418, 8420, 1>>,
         <<42608, 42610, 1>>})
    \* Mn
    @@ (<<77, 110>> :>
        {<<768, 879, 1>>, <<1155, 1159, 1>>, <<1425, 1469, 1>>, <<1471, 1471, 1>>,
         <<1473, 1474, 1>>, <<1476, 1477, 1>>, <<1479, 1479, 1>>, <<1552, 1562, 1>>,
         <<1611, 1631, 1>>, <<1648, 1648, 1>>, <<1750, 1756, 1>>, <<1759, 1764, 1>>,
         <<1767, 1768, 1>>, <<1770, 1773, 1>>, <<1809, 1809, 1>>, <<1840, 1866, 1>>,
         <<1958, 1968, 1>>, <<2027, 2035, 1>>, <<2045, 2045, 1>>, <<2070, 2073, 1>>,
         <<2075, 2083, 1>>, <<2085, 2087, 1>>, <<2089, 2093, 1>>, <<2137, 2139, 1>>,
         <<2200, 2207, 1>>, <<2250, 2273, 1>>, <<2275, 2306, 1>>, <<2362, 2362, 1>>,
         <<2364, 2364, 1>>, <<2369, 2376, 1>>, <<2381, 2381, 1>>, <<2385, 2391, 1>>,
         <<2402, 2403, 1>>, <<2433, 2433, 1>>, <<2492, 2492, 1>>, <<2497, 2500, 1>>,
         <<2509, 2509, 1>>, <<2530, 2531, 1>>, <<2558, 2558, 1>>, <<2561, 2562, 1>>,
         <<2620, 2620, 1>>, <<2625, 2626, 1>>, <<2631, 2632, 1>>, <<2635, 2637, 1>>,
         <<2641, 2641, 1>>, <<2672, 2673, 1>>, <<2677, 2677, 1>>, <<2689, 2690, 1>>,
         <<2748, 2748, 1>>, <<2753, 2757, 1>>, <<2759, 2760, 1>>, <<2765, 2765, 1>>,
         <<2786, 2787, 1>>, <<2810, 2815, 1>>, <<2817, 2817, 1>>, <<2876, 2876, 1>>,
         <<2879, 2879, 1>>, <<2881, 2884, 1>>, <<2893, 2893, 1>>, <<2901, 2902, 1>>,
         <<2914, 2915, 1>>, <<2946, 2946, 1>>, <<3008, 3008, 1>>, <<3021, 3021, 1>>,
         <<3072, 3072, 1>>, <<3076, 3076, 1>>, <<3132, 3132, 1>>, <<3134, 3136, 1>>,
         <<3142, 3144, 1>>, <<3146, 3149, 1>>, <<3157, 3158, 1>>, <<3170, 3171, 1>>,
         <<3201, 3201, 1>>, <<3260, 3260, 1>>, <<3263, 3263, 1>>, <<3270, 3270, 1>>,
         <<3276, 3277, 1>>, <<3298, 3299, 1>>, <<3328, 3329, 1>>, <<3387, 3388, 1>>,
         <<3393, 3396, 1>>, <<3405, 3405, 1>>, <<3426, 3427, 1>>, <<3457, 3457, 1>>,
         <<3530, 3530, 1>>, <<3538, 3540, 1>>, <<3542, 3542, 1>>, <<3633, 3633, 1>>,
         <<3636, 3642, 1>>, <<3655, 3662, 1>>, <<3761, 3761, 1>>, <<3764, 3772, 1>>,
         <<3784, 3790, 1>>, <<3864, 3865, 1>>, <<3893, 3897, 2>>, <<3953, 3966, 1>>,
         <<3968, 3972, 1>>, <<3974, 3975, 1>>, <<3981, 3991, 1>>, <<3993, 4028, 1>>,
         <<4038, 4038, 1>>, <<4141, 4144, 1>>, <<4146, 4151, 1>>, <<4153, 4154, 1>>,
         <<4157, 4158, 1>>, <<4184, 4185, 1>>, <<4190, 4192, 1>>, <<4209, 4212, 1>>,
         <<4226, 4226, 1>>, <<4229, 4230, 1>>, <<4237, 4237, 1>>, <<4253, 4253, 1>>,
         <<4957, 4959, 1>>, <<5906, 5908, 1>>, <<5938, 5939, 1>>, <<5970, 5971, 1>>,
         <<6002, 6003, 1>>, <<6068, 6069, 1>>, <<6071, 6077, 1>>, <<6086, 6086, 1>>,
         <<6089, 6099, 1>>, <<6109, 6109, 1>>, <<6155, 6157, 1>>, <<6159, 6159, 1>>,
         <<6277, 6278, 1>>, <<6313, 6313, 1>>, <<6432, 6434, 1>>, <<6439, 6440, 1>>,
         <<6450, 6450, 1>>, <<6457, 6459, 1>>, <<6679, 6680, 1>>, <<6683, 6683, 1>>,
         <<6742, 6742, 1>>, <<6744, 6750, 1>>, <<6752, 6752, 1>>, <<6754, 6754, 1>>,
         <<6757, 6764, 1>>, <<6771, 6780, 1>>, <<6783, 6783, 1>>, <<6832, 6845, 1>>,
         <<6847, 6862, 1>>, <<6912, 6915, 1>>, <<6964, 6964, 1>>, <<6966, 6970, 1>>,
         <<6972, 6972, 1>>, <<6978, 6978, 1>>, <<7019, 7027, 1>>, <<7040, 7041, 1>>,
         <<7074, 7077, 1>>, <<7080, 7081, 1>>, <<7083, 7085, 1>>, <<7142, 7142, 1>>,
         <<7144, 7145, 1>>, <<7149, 7149, 1>>, <<7151, 7153, 1>>, <<7212, 7219, 1>>,
         <<7222, 7223, 1>>, <<7376, 7378, 1>>, <<7380, 7392, 1>>, <<7394, 7400, 1>>,
         <<7405, 7405, 1>>, <<7412, 7412, 1>>, <<7416, 7417, 1>>, <<7616, 7679, 1>>,
         <<8400, 8412, 1>>, <<8417, 8417, 1>>, <<8421, 8432, 1>>, <<11503, 11505, 1>>,
         <<11647, 11647, 1>>, <<11744, 11775, 1>>, <<12330, 12333, 1>>, <<12441, 12442, 1>>,
         <<42607, 42607, 1>>, <<42612, 42621, 1>>, <<42654, 42655, 1>>, <<42736, 42737, 1>>,
         <<43010, 43010, 1>>, <<43014, 43014, 1>>, <<43019, 43019, 1>>, <<43045, 43046, 1>>,
         <<43052, 43052, 1>>, <<43204, 43205, 1>>, <<43232, 43249, 1>>, <<43263, 43263, 1>>,
         <<43302, 43309, 1>>, <<43335, 43345, 1>>, <<43392, 43394, 1>>, <<43443, 43443, 1>>,
         <<43446, 43449, 1>>, <<43452, 43453, 1>>, <<43493, 43493, 1>>, <<43561, 43566, 1>>,
         <<43569, 43570, 1>>, <<43573, 43574, 1>>, <<43587, 43587, 1>>, <<43596, 43596, 1>>,
         <<43644, 43644, 1>>, <<43696, 43696, 1>>, <<43698, 43700, 1>>, <<43703, 43704, 1>>,
         <<43710, 43711, 1>>, <<43713, 43713, 1>>, <<43756, 43757, 1>>, <<43766, 43766, 1>>,
         <<44005, 44005, 1>>, <<44008, 44008, 1>>, <<44013, 44013, 1>>, <<64286, 64286, 1>>,
         <<65024, 65039, 1>>, <<65056, 65071, 1>>, <<66045, 66045, 1>>, <<66272, 66272, 1>>,
         <<66422, 66426, 1>>, <<68097, 68099, 1>>, <<68101, 68102, 1>>, <<68108, 68111, 1>>,
         <<68152, 68154, 1>>, <<68159, 68159, 1>>, <<68325, 68326, 1>>, <<68900, 68903, 1>>,
         <<69291, 69292, 1>>, <<69373, 69375, 1>>, <<69446, 69456, 1>>, <<69506, 69509, 1>>,
         <<69633, 69633, 1>>, <<69688, 69702, 1>>, <<69744, 69744, 1>>, <<69747, 69748, 1>>,
         <<69759, 69761, 1>>, <<69811, 69814, 1>>, <<69817, 69818, 1>>, <<69826, 69826, 1>>,
         <<69888, 69890, 1>>, <<69927, 69931, 1>>, <<69933, 69940, 1>>, <<70003, 70003, 1>>,
         <<70016, 70017, 1>>, <<70070, 70078, 1>>, <<70089, 70092, 1>>, <<70095, 70095, 1>>,
         <<70191, 70193, 1>>, <<70196, 70196, 1>>, <<70198, 70199, 1>>, <<70206, 70206, 1>>,
         <<70209, 70209, 1>>, <<70367, 70367, 1>>, <<70371, 70378, 1>>, <<70400, 70401, 1>>,
         <<70459, 70460, 1>>, <<70464, 70464, 1>>, <<70502, 70508, 1>>, <<70512, 70516, 1>>,
         <<70712, 70719, 1>>, <<70722, 70724, 1>>, <<70726, 70726, 1>>, <<70750, 70750, 1>>,
         <<70835, 70840, 1>>, <<70842, 70842, 1>>, <<70847, 70848, 1>>, <<70850, 70851, 1>>,
         <<71090, 71093, 1>>, <<71100, 71101, 1>>, <<71103, 71104, 1>>, <<71132, 71133, 1>>,
         <<71219, 71226, 1>>, <<71229, 71229, 1>>, <<71231, 71232, 1>>, <<71339, 71339, 1>>,
         <<71341, 71341, 1>>, <<71344, 71349, 1>>, <<71351, 71351, 1>>, <<71453, 71455, 1>>,
         <<71458, 71461, 1>>, <<71463, 71467, 1>>, <<71727, 71735, 1>>, <<71737, 71738, 1>>,
         <<71995, 71996, 1>>, <<71998, 71998, 1>>, <<72003, 72003, 1>>, <<72148, 72151, 1>>,
         <<72154, 72155, 1>>, <<72160, 72160, 1>>, <<72193, 72202, 1>>, <<72243, 72248, 1>>,
         <<72251, 72254, 1>>, <<72263, 72263, 1>>, <<72273, 72278, 1>>, <<72281, 72283, 1>>,
         <<72330, 72342, 1>>, <<72344, 72345, 1>>, <<72752, 72758, 1>>, <<72760, 72765, 1>>,
         <<72767, 72767, 1>>, <<72850, 72871, 1>>, <<72874, 72880, 1>>, <<72882, 72883, 1>>,
         <<72885, 72886, 1>>, <<73009, 73014, 1>>, <<73018, 73018, 1>>, <<73020, 73021, 1>>,
         <<73023, 73029, 1>>, <<73031, 73031, 1>>, <<73104, 73105, 1>>, <<73109, 73109, 1>>,
         <<73111, 73111, 1>>, <<73459, 73460, 1>>, <<73472, 73473, 1>>, <<73526, 73530, 1>>,
         <<73536, 73536, 1>>, <<73538, 73538, 1>>, <<78912, 78912, 1>>, <<78919, 78933, 1>>,
         <<92912, 92916, 1>>, <<92976, 92982, 1>>, <<94031, 94031, 1>>, <<94095, 94098, 1>>,
         <<94180, 94180, 1>>, <<113821, 113822, 1>>, <<118528, 118573, 1>>, <<118576, 118598, 1>>,
         <<119143, 119145, 1>>, <<119163, 119170, 1>>, <<119173, 119179, 1>>, <<119210, 119213, 1>>,
         <<119362, 119364, 1>>, <<121344, 121398, 1>>, <<121403, 121452, 1>>, <<121461, 121461, 1>>,
         <<121476, 121476, 1>>, <<121499, 121503, 1>>, <<121505, 121519, 1>>, <<122880, 122886, 1>>,
         <<122888, 122904, 1>>, <<122907, 122913, 1>>, <<122915, 122916, 1>>, <<122918, 122922, 1>>,
         <<123023, 123023, 1>>, <<123184, 123190, 1>>, <<123566, 123566, 1>>, <<123628, 123631, 1>>,
         <<124140, 124143, 1>>, <<125136, 125142, 1>>, <<125252, 125258, 1>>, <<917760, 917999, 1>>})
    \* Nd
    @@ (<<78, 100>> :>
        {<<48, 57, 1>>, <<1632, 1641, 1>>, <<1776, 1785, 1>>, <<1984, 1993, 1>>, <<2406, 2415, 1>>,
         <<2534, 2543, 1>>, <<2662, 2671, 1>>, <<2790, 2799, 1>>, <<2918, 2927, 1>>,
         <<3046, 3055, 1>>, <<3174, 3183, 1>>, <<3302, 3311, 1>>, <<3430, 3439, 1>>,
         <<3558, 3567, 1>>, <<3664, 3673, 1>>, <<3792, 3801, 1>>, <<3872, 3881, 1>>,
         <<4160, 4169, 1>>, <<4240, 4249, 1>>, <<6112, 6121, 1>>, <<6160, 6169, 1>>,
         <<6470, 6479, 1>>, <<6608, 6617, 1>>, <<6784, 6793, 1>>, <<6800, 6809, 1>>,
         <<6992, 7001, 1>>, <<7088, 7097, 1>>, <<7232, 7241, 1>>, <<7248, 7257, 1>>,
         <<42528, 42537, 1>>, <<43216, 43225, 1>>, <<43264, 43273, 1>>, <<43472, 43481, 1>>,
         <<43504, 43513, 1>>, <<43600, 43609, 1>>, <<44016, 44025, 1>>, <<65296, 65305, 1>>,
         <<66720, 66729, 1>>, <<68912, 68921, 1>>, <<69734, 69743, 1>>, <<69872, 69881, 1>>,
         <<69942, 69951, 1>>, <<70096, 70105, 1>>, <<70384, 70393, 1>>, <<70736, 70745, 1>>,
         <<70864, 70873, 1>>, <<71248, 71257, 1>>, <<71360, 71369, 1>>, <<71472, 71481, 1>>,
         <<71904, 71913, 1>>, <<72016, 72025, 1>>, <<72784, 72793, 1>>, <<73040, 73049, 1>>,
         <<73120, 73129, 1>>, <<73552, 73561, 1>>, <<92768, 92777, 1>>, <<92864, 92873, 1>>,
         <<93008, 93017, 1>>, <<120782, 120831, 1>>, <<123200, 123209, 1>>, <<123632, 123641, 1>>,
         <<124144, 124153, 1>>, <<125264, 125273, 1>>, <<130032, 130041, 1>>})
    \* Nl
    @@ (<<78, 108>> :>
        {<<5870, 5872, 1>>, <<8544, 8578, 1>>, <<8581, 8584, 1>>, <<12295, 12295, 1>>,
         <<12321, 12329, 1>>, <<12344, 12346, 1>>, <<42726, 42735, 1>>, <<65856, 65908, 1>>,
         <<66369, 66369, 1>>, <<66378, 66378, 1>>, <<66513, 66517, 1>>, <<74752, 74862, 1>>})
    \* No
    @@ (<<78, 111>> :>
        {<<178, 179, 1>>, <<185, 185, 1>>, <<188, 190, 1>>, <<2548, 2553, 1>>, <<2930, 2935, 1>>,
         <<3056, 3058, 1>>, <<3192, 3198, 1>>, <<3416, 3422, 1>>, <<3440, 3448, 1>>,
         <<3882, 3891, 1>>, <<4969, 4988, 1>>, <<6128, 6137, 1>>, <<6618, 6618, 1>>,
         <<8304, 8304, 1>>, <<8308, 8313, 1>>, <<8320, 8329, 1>>, <<8528, 8543, 1>>,
         <<8585, 8585, 1>>, <<9312, 9371, 1>>, <<9450, 9471, 1>>, <<10102, 10131, 1>>,
         <<11517, 11517, 1>>, <<12690, 12693, 1>>, <<12832, 12841, 1>>, <<12872, 12879, 1>>,
         <<12881, 12895, 1>>, <<12928, 12937, 1>>, <<12977, 12991, 1>>, <<43056, 43061, 1>>,
         <<65799, 65843, 1>>, <<65909, 65912, 1>>, <<65930, 65931, 1>>, <<66273, 66299, 1>>,
         <<66336, 66339, 1>>, <<67672, 67679, 1>>, <<67705, 67711, 1>>, <<67751, 67759, 1>>,
         <<67835, 67839, 1>>, <<67862, 67867, 1>>, <<68028, 68029, 1>>, <<68032, 68047, 1>>,
         <<68050, 68095, 1>>, <<68160, 68168, 1>>, <<68221, 68222, 1>>, <<68253, 68255, 1>>,
         <<68331, 68335, 1>>, <<68440, 68447, 1>>, <<68472, 68479, 1>>, <<68521, 68527, 1>>,
         <<68858, 68863, 1>>, <<69216, 69246, 1>>, <<69405, 69414, 1>>, <<69457, 69460, 1>>,
         <<69573, 69579, 1>>, <<69714, 69733, 1>>, <<70113, 70132, 1>>, <<71482, 71483, 1>>,
         <<71914, 71922, 1>>, <<72794, 72812, 1>>, <<73664, 73684, 1>>, <<93019, 93025, 1>>,
         <<93824, 93846, 1>>, <<119488, 119507, 1>>, <<119520, 119539, 1>>, <<119648, 119672, 1>>,
         <<125127, 125135, 1>>, <<126065, 126123, 1>>, <<126125, 126127, 1>>, <<126129, 126132, 1>>,
         <<126209, 126253, 1>>, <<126255, 126269, 1>>, <<127232, 127244, 1>>})
    \* Pc
    @@ (<<80, 99>> :>
        {<<95, 95, 1>>, <<8255, 8256, 1>>, <<8276, 8276, 1>>, <<65075, 65076, 1>>,
         <<65101, 65103, 1>>, <<65343, 65343, 1>>})
    \* Pd
    @@ (<<80, 100>> :>
        {<<45, 45, 1>>, <<1418, 1418, 1>>, <<1470, 1470, 1>>, <<5120, 5120, 1>>, <<6150, 6150, 1>>,
         <<8208, 8213, 1>>, <<11799, 11799, 1>>, <<11802, 11802, 1>>, <<11834, 11835, 1>>,
         <<11840, 11840, 1>>, <<11869, 11869, 1>>, <<12316, 12316, 1>>, <<12336, 12336, 1>>,
         <<12448, 12448, 1>>, <<65073, 65074, 1>>, <<65112, 65112, 1>>, <<65123, 65123, 1>>,
         <<65293, 65293, 1>>, <<69293, 69293, 1>>})
    \* Pe
    @@ (<<80, 101>> :>
        {<<41, 41, 1>>, <<93, 93, 1>>, <<125, 125, 1>>, <<3899, 3899, 1>>, <<3901, 3901, 1>>,
         <<5788, 5788, 1>>, <<8262, 8262, 1>>, <<8318, 8318, 1>>, <<8334, 8334, 1>>,
         <<8969, 8969, 1>>, <<8971, 8971, 1>>, <<9002, 9002, 1>>, <<10089, 10101, 2>>,
         <<10182, 10182, 1>>, <<10215, 10223, 2>>, <<10628, 10648, 2>>, <<10713, 10713, 1>>,
         <<10715, 10715, 1>>, <<10749, 10749, 1>>, <<11811, 11817, 2>>, <<11862, 11868, 2>>,
         <<12297, 12305, 2>>, <<12309, 12315, 2>>, <<12318, 12319, 1>>, <<64830, 64830, 1>>,
         <<65048, 65048, 1>>, <<65078, 65092, 2>>, <<65096, 65096, 1>>, <<65114, 65118, 2>>,
         <<65289, 65289, 1>>, <<65341, 65341, 1>>, <<65373, 65379, 3>>})
    \* Pf
    @@ (<<80, 102>> :>
        {<<187, 187, 1>>, <<8217, 8217, 1>>, <<8221, 8221, 1>>, <<8250, 8250, 1>>,
         <<11779, 11779, 1>>, <<11781, 11781, 1>>, <<11786, 11786, 1>>, <<11789, 11789, 1>>,
         <<11805, 11805, 1>>, <<11809, 11809, 1>>})
    \* Pi
    @@ (<<80, 105>> :>
        {<<171, 171, 1>>, <<8216, 8216, 1>>, <<8219, 8220, 1>>, <<8223, 8223, 1>>,
         <<8249, 8249, 1>>, <<11778, 11778, 1>>, <<11780, 11780, 1>>, <<11785, 11785, 1>>,
         <<11788, 11788, 1>>, <<11804, 11804, 1>>, <<11808, 11808, 1>>})
    \* Po
    @@ (<<80, 111>> :>
        {<<33, 35, 1>>, <<37, 39, 1>>, <<42, 42, 1>>, <<44, 44, 1>>, <<46, 47, 1>>, <<58, 59, 1>>,
         <<63, 64, 1>>, <<92, 92, 1>>, <<161, 161, 1>>, <<167, 167, 1>>, <<182, 183, 1>>,
         <<191, 191, 1>>, <<894, 894, 1>>, <<903, 903, 1>>, <<1370, 1375, 1>>, <<1417, 1417, 1>>,
         <<1472, 1478, 3>>, <<1523, 1524, 1>>, <<1545, 1546, 1>>, <<1548, 1549, 1>>,
         <<1563, 1563, 1>>, <<1565, 1567, 1>>, <<1642, 1645, 1>>, <<1748, 1748, 1>>,
         <<1792, 1805, 1>>, <<2039, 2041, 1>>, <<2096, 2110, 1>>, <<2142, 2142, 1>>,
         <<2404, 2405, 1>>, <<2416, 2416, 1>>, <<2557, 2557, 1>>, <<2678, 2678, 1>>,
         <<2800, 2800, 1>>, <<3191, 3191, 1>>, <<3204, 3204, 1>>, <<3572, 3572, 1>>,
         <<3663, 3663, 1>>, <<3674, 3675, 1>>, <<3844, 3858, 1>>, <<3860, 3860, 1>>,
         <<3973, 3973, 1>>, <<4048, 4052, 1>>, <<4057, 4058, 1>>, <<4170, 4175, 1>>,
         <<4347, 4347, 1>>, <<4960, 4968, 1>>, <<5742, 5742, 1>>, <<5867, 5869, 1>>,
         <<5941, 5942, 1>>, <<6100, 6102, 1>>, <<6104, 6106, 1>>, <<6144, 6149, 1>>,
         <<6151, 6154, 1>>, <<6468, 6469, 1>>, <<6686, 6687, 1>>, <<6816, 6822, 1>>,
         <<6824, 6829, 1>>, <<7002, 7008, 1>>, <<7037, 7038, 1>>, <<7164, 7167, 1>>,
         <<7227, 7231, 1>>, <<7294, 7295, 1>>, <<7360, 7367, 1>>, <<7379, 7379, 1>>,
         <<8214, 8215, 1>>, <<8224, 8231, 1>>, <<8240, 8248, 1>>, <<8251, 8254, 1>>,
         <<8257, 8259, 1>>, <<8263, 8273, 1>>, <<8275, 8275, 1>>, <<8277, 8286, 1>>,
         <<11513, 11516, 1>>, <<11518, 11519, 1>>, <<11632, 11632, 1>>, <<11776, 11777, 1>>,
         <<11782, 11784, 1>>, <<11787, 11787, 1>>, <<11790, 11798, 1>>, <<11800, 11801, 1>>,
         <<11803, 11803, 1>>, <<11806, 11807, 1>>, <<11818, 11822, 1>>, <<11824, 11833, 1>>,
         <<11836, 11839, 1>>, <<11841, 11841, 1>>, <<11843, 11855, 1>>, <<11858, 11860, 1>>,
         <<12289, 12291, 1>>, <<12349, 12349, 1>>, <<12539, 12539, 1>>, <<42238, 42239, 1>>,
         <<42509, 42511, 1>>, <<42611, 42611, 1>>, <<42622, 42622, 1>>, <<42738, 42743, 1>>,
         <<43124, 43127, 1>>, <<43214, 43215, 1>>, <<43256, 43258, 1>>, <<43260, 43260, 1>>,
         <<43310, 43311, 1>>, <<43359, 43359, 1>>, <<43457, 43469, 1>>, <<43486, 43487, 1>>,
         <<43612, 43615, 1>>, <<43742, 43743, 1>>, <<43760, 43761, 1>>, <<44011, 44011, 1>>,
         <<65040, 65046, 1>>, <<65049, 65049, 1>>, <<65072, 65072, 1>>, <<65093, 65094, 1>>,
         <<65097, 65100, 1>>, <<65104, 65106, 1>>, <<65108, 65111, 1>>, <<65119, 65121, 1>>,
         <<65128, 65128, 1>>, <<65130, 65131, 1>>, <<65281, 65283, 1>>, <<65285, 65287, 1>>,
         <<65290, 65290, 1>>, <<65292, 65292, 1>>, <<65294, 65295, 1>>, <<65306, 65307, 1>>,
         <<65311, 65312, 1>>, <<65340, 65340, 1>>, <<65377, 65377, 1>>, <<65380, 65381, 1>>,
         <<65792, 65794, 1>>, <<66463, 66463, 1>>, <<66512, 66512, 1>>, <<66927, 66927, 1>>,
         <<67671, 67671, 1>>, <<67871, 67871, 1>>, <<67903, 67903, 1>>, <<68176, 68184, 1>>,
         <<68223, 68223, 1>>, <<68336, 68342, 1>>, <<68409, 68415, 1>>, <<68505, 68508, 1>>,
         <<69461, 69465, 1>>, <<69510, 69513, 1>>, <<69703, 69709, 1>>, <<69819, 69820, 1>>,
         <<69822, 69825, 1>>, <<69952, 69955, 1>>, <<70004, 70005, 1>>, <<70085, 70088, 1>>,
         <<70093, 70093, 1>>, <<70107, 70107, 1>>, <<70109, 70111, 1>>, <<70200, 70205, 1>>,
         <<70313, 70313, 1>>, <<70731, 70735, 1>>, <<70746, 70747, 1>>, <<70749, 70749, 1>>,
         <<70854, 70854, 1>>, <<71105, 71127, 1>>, <<71233, 71235, 1>>, <<71264, 71276, 1>>,
         <<71353, 71353, 1>>, <<71484, 71486, 1>>, <<71739, 71739, 1>>, <<72004, 72006, 1>>,
         <<72162, 72162, 1>>, <<72255, 72262, 1>>, <<72346, 72348, 1>>, <<72350, 72354, 1>>,
         <<72448, 72457, 1>>, <<72769, 72773, 1>>, <<72816, 72817, 1>>, <<73463, 73464, 1>>,
         <<73539, 73551, 1>>, <<73727, 73727, 1>>, <<74864, 74868, 1>>, <<77809, 77810, 1>>,
         <<92782, 92783, 1>>, <<92917, 92917, 1>>, <<92983, 92987, 1>>, <<92996, 92996, 1>>,
         <<93847, 93850, 1>>, <<94178, 94178, 1>>, <<113823, 113823, 1>>, <<121479, 121483, 1>>,
         <<125278, 125279, 1>>})
    \* Ps
    @@ (<<80, 115>> :>
        {<<40, 40, 1>>, <<91, 91, 1>>, <<123, 123, 1>>, <<3898, 3898, 1>>, <<3900, 3900, 1>>,
         <<5787, 5787, 1>>, <<8218, 8218, 1>>, <<8222, 8222, 1>>, <<8261, 8261, 1>>,
         <<8317, 8317, 1>>, <<8333, 8333, 1>>, <<8968, 8968, 1>>, <<8970, 8970, 1>>,
         <<9001, 9001, 1>>, <<10088, 10100, 2>>, <<10181, 10181, 1>>, <<10214, 10222, 2>>,
         <<10627, 10647, 2>>, <<10712, 10712, 1>>, <<10714, 10714, 1>>, <<10748, 10748, 1>>,
         <<11810, 11816, 2>>, <<11842, 11842, 1>>, <<11861, 11867, 2>>, <<12296, 12304, 2>>,
         <<12308, 12314, 2>>, <<12317, 12317, 1>>, <<64831, 64831, 1>>, <<65047, 65047, 1>>,
         <<65077, 65091, 2>>, <<65095, 65095, 1>>, <<65113, 65117, 2>>, <<65288, 65288, 1>>,
         <<65339, 65339, 1>>, <<65371, 65371, 1>>, <<65375, 65375, 1>>, <<65378, 65378, 1>>})
    \* Sc
    @@ (<<83, 99>> :>
        {<<36, 36, 1>>, <<162, 165, 1>>, <<1423, 1423, 1>>, <<1547, 1547, 1>>, <<2046, 2047, 1>>,
         <<2546, 2547, 1>>, <<2555, 2555, 1>>, <<2801, 2801, 1>>, <<3065, 3065, 1>>,
         <<3647, 3647, 1>>, <<6107, 6107, 1>>, <<8352, 8384, 1>>, <<43064, 43064, 1>>,
         <<65020, 65020, 1>>, <<65129, 65129, 1>>, <<65284, 65284, 1>>, <<65504, 65505, 1>>,
         <<65509, 65510, 1>>, <<73693, 73696, 1>>, <<123647, 123647, 1>>, <<126128, 126128, 1>>})
    \* Sk
    @@ (<<83, 107>> :>
        {<<94, 94, 1>>, <<96, 96, 1>>, <<168, 168, 1>>, <<175, 175, 1>>, <<180, 180, 1>>,
         <<184, 184, 1>>, <<706, 709, 1>>, <<722, 735, 1>>, <<741, 747, 1>>, <<749, 749, 1>>,
         <<751, 767, 1>>, <<885, 885, 1>>, <<900, 901, 1>>, <<2184, 2184, 1>>, <<8125, 8125, 1>>,
         <<8127, 8129, 1>>, <<8141, 8143, 1>>, <<8157, 8159, 1>>, <<8173, 8175, 1>>,
         <<8189, 8190, 1>>, <<12443, 12444, 1>>, <<42752, 42774, 1>>, <<42784, 42785, 1>>,
         <<42889, 42890, 1>>, <<43867, 43867, 1>>, <<43882, 43883, 1>>, <<64434, 64450, 1>>,
         <<65342, 65342, 1>>, <<65344, 65344, 1>>, <<65507, 65507, 1>>, <<127995, 127999, 1>>})
    \* Sm
    @@ (<<83, 109>> :>
        {<<43, 43, 1>>, <<60, 62, 1>>, <<124, 124, 1>>, <<126, 126, 1>>, <<172, 172, 1>>,
         <<177, 177, 1>>, <<215, 215, 1>>, <<247, 247, 1>>, <<1014, 1014, 1>>, <<1542, 1544, 1>>,
         <<8260, 8260, 1>>, <<8274, 8274, 1>>, <<8314, 8316, 1>>, <<8330, 8332, 1>>,
         <<8472, 8472, 1>>, <<8512, 8516, 1>>, <<8523, 8523, 1>>, <<8592, 8596, 1>>,
         <<8602, 8603, 1>>, <<8608, 8614, 3>>, <<8622, 8622, 1>>, <<8654, 8655, 1>>,
         <<8658, 8658, 1>>, <<8660, 8660, 1>>, <<8692, 8959, 1>>, <<8992, 8993, 1>>,
         <<9084, 9084, 1>>, <<9115, 9139, 1>>, <<9180, 9185, 1>>, <<9655, 9655, 1>>,
         <<9665, 9665, 1>>, <<9720, 9727, 1>>, <<9839, 9839, 1>>, <<10176, 10180, 1>>,
         <<10183, 10213, 1>>, <<10224, 10239, 1>>, <<10496, 10626, 1>>, <<10649, 10711, 1>>,
         <<10716, 10747, 1>>, <<10750, 11007, 1>>, <<11056, 11076, 1>>, <<11079, 11084, 1>>,
         <<64297, 64297, 1>>, <<65122, 65122, 1>>, <<65124, 65126, 1>>, <<65291, 65291, 1>>,
         <<65308, 65310, 1>>, <<65372, 65372, 1>>, <<65374, 65374, 1>>, <<65506, 65506, 1>>,
         <<65513, 65516, 1>>, <<120513, 120513, 1>>, <<120539, 120539, 1>>, <<120571, 120571, 1>>,
         <<120597, 120597, 1>>, <<120629, 120629, 1>>, <<120655, 120655, 1>>, <<120687, 120687, 1>>,
         <<120713, 120713, 1>>, <<120745, 120745, 1>>, <<120771, 120771, 1>>, <<126704, 126705, 1>>})
    \* So
    @@ (<<83, 111>> :>
        {<<166, 166, 1>>, <<169, 169, 1>>, <<174, 174, 1>>, <<176, 176, 1>>, <<1154, 1154, 1>>,
         <<1421, 1422, 1>>, <<1550, 1551, 1>>, <<1758, 1758, 1>>, <<1769, 1769, 1>>,
         <<1789, 1790, 1>>, <<2038, 2038, 1>>, <<2554, 2554, 1>>, <<2928, 2928, 1>>,
         <<3059, 3064, 1>>, <<3066, 3066, 1>>, <<3199, 3199, 1>>, <<3407, 3407, 1>>,
         <<3449, 3449, 1>>, <<3841, 3843, 1>>, <<3859, 3859, 1>>, <<3861, 3863, 1>>,
         <<3866, 3871, 1>>, <<3892, 3896, 2>>, <<4030, 4037, 1>>, <<4039, 4044, 1>>,
         <<4046, 4047, 1>>, <<4053, 4056, 1>>, <<4254, 4255, 1>>, <<5008, 5017, 1>>,
         <<5741, 5741, 1>>, <<6464, 6464, 1>>, <<6622, 6655, 1>>, <<7009, 7018, 1>>,
         <<7028, 7036, 1>>, <<8448, 8449, 1>>, <<8451, 8454, 1>>, <<8456, 8457, 1>>,
         <<8468, 8468, 1>>, <<8470, 8471, 1>>, <<8478, 8483, 1>>, <<8485, 8489, 2>>,
         <<8494, 8494, 1>>, <<8506, 8507, 1>>, <<8522, 8522, 1>>, <<8524, 8525, 1>>,
         <<8527, 8527, 1>>, <<8586, 8587, 1>>, <<8597, 8601, 1>>, <<8604, 8607, 1>>,
         <<8609, 8610, 1>>, <<8612, 8613, 1>>, <<8615, 8621, 1>>, <<8623, 8653, 1>>,
         <<8656, 8657, 1>>, <<8659, 8659, 1>>, <<8661, 8691, 1>>, <<8960, 8967, 1>>,
         <<8972, 8991, 1>>, <<8994, 9000, 1>>, <<9003, 9083, 1>>, <<9085, 9114, 1>>,
         <<9140, 9179, 1>>, <<9186, 9254, 1>>, <<9280, 9290, 1>>, <<9372, 9449, 1>>,
         <<9472, 9654, 1>>, <<9656, 9664, 1>>, <<9666, 9719, 1>>, <<9728, 9838, 1>>,
         <<9840, 10087, 1>>, <<10132, 10175, 1>>, <<10240, 10495, 1>>, <<11008, 11055, 1>>,
         <<11077, 11078, 1>>, <<11085, 11123, 1>>, <<11126, 11157, 1>>, <<11159, 11263, 1>>,
         <<11493, 11498, 1>>, <<11856, 11857, 1>>, <<11904, 11929, 1>>, <<11931, 12019, 1>>,
         <<12032, 12245, 1>>, <<12272, 12283, 1>>, <<12292, 12292, 1>>, <<12306, 12307, 1>>,
         <<12320, 12320, 1>>, <<12342, 12343, 1>>, <<12350, 12351, 1>>, <<12688, 12689, 1>>,
         <<12694, 12703, 1>>, <<12736, 12771, 1>>, <<12800, 12830, 1>>, <<12842, 12871, 1>>,
         <<12880, 12880, 1>>, <<12896, 12927, 1>>, <<12938, 12976, 1>>, <<12992, 13311, 1>>,
         <<19904, 19967, 1>>, <<42128, 42182, 1>>, <<43048, 43051, 1>>, <<43062, 43063, 1>>,
         <<43065, 43065, 1>>, <<43639, 43641, 1>>, <<64832, 64847, 1>>, <<64975, 64975, 1>>,
         <<65021, 65023, 1>>, <<65508, 65508, 1>>, <<65512, 65512, 1>>, <<65517, 65518, 1>>,
         <<65532, 65533, 1>>, <<65847, 65855, 1>>, <<65913, 65929, 1>>, <<65932, 65934, 1>>,
         <<65936, 65948, 1>>, <<65952, 65952, 1>>, <<66000, 66044, 1>>, <<67703, 67704, 1>>,
         <<68296, 68296, 1>>, <<71487, 71487, 1>>, <<73685, 73692, 1>>, <<73697, 73713, 1>>,
         <<92988, 92991, 1>>, <<92997, 92997, 1>>, <<113820, 113820, 1>>, <<118608, 118723, 1>>,
         <<118784, 119029, 1>>, <<119040, 119078, 1>>, <<119081, 119140, 1>>, <<119146, 119148, 1>>,
         <<119171, 119172, 1>>, <<119180, 119209, 1>>, <<119214, 119274, 1>>, <<119296, 119361, 1>>,
         <<119365, 119365, 1>>, <<119552, 119638, 1>>, <<120832, 121343, 1>>, <<121399, 121402, 1>>,
         <<121453, 121460, 1>>, <<121462, 121475, 1>>, <<121477, 121478, 1>>, <<123215, 123215, 1>>,
         <<126124, 126124, 1>>, <<126254, 126254, 1>>, <<126976, 127019, 1>>, <<127024, 127123, 1>>,
         <<127136, 127150, 1>>, <<127153, 127167, 1>>, <<127169, 127183, 1>>, <<127185, 127221, 1>>,
         <<127245, 127405, 1>>, <<127462, 127490, 1>>, <<127504, 127547, 1>>, <<127552, 127560, 1>>,
         <<127568, 127569, 1>>, <<127584, 127589, 1>>, <<127744, 127994, 1>>, <<128000, 128727, 1>>,
         <<128732, 128748, 1>>, <<128752, 128764, 1>>, <<128768, 128886, 1>>, <<128891, 128985, 1>>,
         <<128992, 129003, 1>>, <<129008, 129008, 1>>, <<129024, 129035, 1>>, <<129040, 129095, 1>>,
         <<129104, 129113, 1>>, <<129120, 129159, 1>>, <<129168, 129197, 1>>, <<129200, 129201, 1>>,
         <<129280, 129619, 1>>, <<129632, 129645, 1>>, <<129648, 129660, 1>>, <<129664, 129672, 1>>,
         <<129680, 129725, 1>>, <<129727, 129733, 1>>, <<129742, 129755, 1>>, <<129760, 129768, 1>>,
         <<129776, 129784, 1>>, <<129792, 129938, 1>>, <<129940, 129994, 1>>})
    \* Zl
    @@ (<<90, 108>> :>
        {<<8232, 8232, 1>>})
    \* Zp
    @@ (<<90, 112>> :>
        {<<8233, 8233, 1>>})
    \* Zs
    @@ (<<90, 115>> :>
        {<<32, 32, 1>>, <<160, 160, 1>>, <<5760, 5760, 1>>, <<8192, 8202, 1>>, <<8239, 8239, 1>>,
         <<8287, 8287, 1>>, <<12288, 12288, 1>>})

\* unicode.Scripts: the ranges <<lo, hi, stride>> of the scripts (Unicode
\* 15.0.0); the names are given as bytes
Scripts ==
    \* Adlam
    (<<65, 100, 108, 97, 109>> :>
        {<<125184, 125259, 1>>, <<125264, 125273, 1>>, <<125278, 125279, 1>>})
    \* Ahom
    @@ (<<65, 104, 111, 109>> :>
        {<<71424, 71450, 1>>, <<71453, 71467, 1>>, <<71472, 71494, 1>>})
    \* Anatolian_Hieroglyphs
    @@ (<<65, 110, 97, 116, 111, 108, 105, 97, 110, 95, 72, 105, 101, 114, 111, 103, 108, 121, 112, 104, 115>> :>
        {<<82944, 83526, 1>>})
    \* Arabic
    @@ (<<65, 114, 97, 98, 105, 99>> :>
        {<<1536, 1540, 1>>, <<1542, 1547, 1>>, <<1549, 1562, 1>>, <<1564, 1566, 1>>,
         <<1568, 1599, 1>>, <<1601, 1610, 1>>, <<1622, 1647, 1>>, <<1649, 1756, 1>>,
         <<1758, 1791, 1>>, <<1872, 1919, 1>>, <<2160, 2190, 1>>, <<2192, 2193, 1>>,
         <<2200, 2273, 1>>, <<2275, 2303, 1>>, <<64336, 64450, 1>>, <<64467, 64829, 1>>,
         <<64832, 64911, 1>>, <<64914, 64967, 1>>, <<64975, 64975, 1>>, <<65008, 65023, 1>>,
         <<65136, 65140, 1>>, <<65142, 65276, 1>>, <<69216, 69246, 1>>, <<69373, 69375, 1>>,
         <<126464, 126467, 1>>, <<126469, 126495, 1>>, <<126497, 126498, 1>>, <<126500, 126500, 1>>,
         <<126503, 126503, 1>>, <<126505, 126514, 1>>, <<126516, 126519, 1>>, <<126521, 126521, 1>>,
         <<126523, 126523, 1>>, <<126530, 126530, 1>>, <<126535, 126539, 2>>, <<126541, 126543, 1>>,
         <<126545, 126546, 1>>, <<126548, 126548, 1>>, <<126551, 126559, 2>>, <<126561, 126562, 1>>,
         <<126564, 126564, 1>>, <<126567, 126570, 1>>, <<126572, 126578, 1>>, <<126580, 126583, 1>>,
         <<126585, 126588, 1>>, <<126590, 126590, 1>>, <<126592, 126601, 1>>, <<126603, 126619, 1>>,
         <<126625, 126627, 1>>, <<126629, 126633, 1>>, <<126635, 126651, 1>>, <<126704, 126705, 1>>})
    \* Armenian
    @@ (<<65, 114, 109, 101, 110, 105, 97, 110>> :>
        {<<1329, 1366, 1>>, <<1369, 1418, 1>>, <<1421, 1423, 1>>, <<64275, 64279, 1>>})
    \* Avestan
    @@ (<<65, 118, 101, 115, 116, 97, 110>> :>
        {<<68352, 68405, 1>>, <<68409, 68415, 1>>})
    \* Balinese
    @@ (<<66, 97, 108, 105, 110, 101, 115, 101>> :>
        {<<6912, 6988, 1>>, <<6992, 7038, 1>>})
    \* Bamum
    @@ (<<66, 97, 109, 117, 109>> :>
        {<<42656, 42743, 1>>, <<92160, 92728, 1>>})
    \* Bassa_Vah
    @@ (<<66, 97, 115, 115, 97, 95, 86, 97, 104>> :>
        {<<92880, 92909, 1>>, <<92912, 92917, 1>>})
    \* Batak
    @@ (<<66, 97, 116, 97, 107>> :>
        {<<7104, 7155, 1>>, <<7164, 7167, 1>>})
    \* Bengali
    @@ (<<66, 101, 110, 103, 97, 108, 105>> :>
        {<<2432, 2435, 1>>, <<2437, 2444, 1>>, <<2447, 2448, 1>>, <<2451, 2472, 1>>,
         <<2474, 2480, 1>>, <<2482, 2482, 1>>, <<2486, 2489, 1>>, <<2492, 2500, 1>>,
         <<2503, 2504, 1>>, <<2507, 2510, 1>>, <<2519, 2519, 1>>, <<2524, 2525, 1>>,
         <<2527, 2531, 1>>, <<2534, 2558, 1>>})
    \* Bhaiksuki
    @@ (<<66, 104, 97, 105, 107, 115, 117, 107, 105>> :>
        {<<72704, 72712, 1>>, <<72714, 72758, 1>>, <<72760, 72773, 1>>, <<72784, 72812, 1>>})
    \* Bopomofo
    @@ (<<66, 111, 112, 111, 109, 111, 102, 111>> :>
        {<<746, 747, 1>>, <<12549, 12591, 1>>, <<12704, 12735, 1>>})
    \* Brahmi
    @@ (<<66, 114, 97, 104, 109, 105>> :>
        {<<69632, 69709, 1>>, <<69714, 69749, 1>>, <<69759, 69759, 1>>})
    \* Braille
    @@ (<<66, 114, 97, 105, 108, 108, 101>> :>
        {<<10240, 10495, 1>>})
    \* Buginese
    @@ (<<66, 117, 103, 105, 110, 101, 115, 101>> :>
        {<<6656, 6683, 1>>, <<6686, 6687, 1>>})
    \* Buhid
    @@ (<<66, 117, 104, 105, 100>> :>
        {<<5952, 5971, 1>>})
    \* Canadian_Aboriginal
    @@ (<<67, 97, 110, 97, 100, 105, 97, 110, 95, 65, 98, 111, 114, 105, 103, 105, 110, 97, 108>> :>
        {<<5120, 5759, 1>>, <<6320, 6389, 1>>, <<72368, 72383, 1>>})
    \* Carian
    @@ (<<67, 97, 114, 105, 97, 110>> :>
        {<<66208, 66256, 1>>})
    \* Caucasian_Albanian
    @@ (<<67, 97, 117, 99, 97, 115, 105, 97, 110, 95, 65, 108, 98, 97, 110, 105, 97, 110>> :>
        {<<66864, 66915, 1>>, <<66927, 66927, 1>>})
    \* Chakma
    @@ (<<67, 104, 97, 107, 109, 97>> :>
        {<<69888, 69940, 1>>, <<69942, 69959, 1>>})
    \* Cham
    @@ (<<67, 104, 97, 109>> :>
        {<<43520, 43574, 1>>, <<43584, 43597, 1>>, <<43600, 43609, 1>>, <<43612, 43615, 1>>})
    \* Cherokee
    @@ (<<67, 104, 101, 114, 111, 107, 101, 101>> :>
        {<<5024, 5109, 1>>, <<5112, 5117, 1>>, <<43888, 43967, 1>>})
    \* Chorasmian
    @@ (<<67, 104, 111, 114, 97, 115, 109, 105, 97, 110>> :>
        {<<69552, 69579, 1>>})
    \* Common
    @@ (<<67, 111, 109, 109, 111, 110>> :>
        {<<0, 64, 1>>, <<91, 96, 1>>, <<123, 169, 1>>, <<171, 185, 1>>, <<187, 191, 1>>,
         <<215, 215, 1>>, <<247, 247, 1>>, <<697, 735, 1>>, <<741, 745, 1>>, <<748, 767, 1>>,
         <<884, 884, 1>>, <<894, 894, 1>>, <<901, 901, 1>>, <<903, 903, 1>>, <<1541, 1541, 1>>,
         <<1548, 1548, 1>>, <<1563, 1563, 1>>, <<1567, 1567, 1>>, <<1600, 1600, 1>>,
         <<1757, 1757, 1>>, <<2274, 2274, 1>>, <<2404, 2405, 1>>, <<3647, 3647, 1>>,
         <<4053, 4056, 1>>, <<4347, 4347, 1>>, <<5867, 5869, 1>>, <<5941, 5942, 1>>,
         <<6146, 6147, 1>>, <<6149, 6149, 1>>, <<7379, 7379, 1>>, <<7393, 7393, 1>>,
         <<7401, 7404, 1>>, <<7406, 7411, 1>>, <<7413, 7415, 1>>, <<7418, 7418, 1>>,
         <<8192, 8203, 1>>, <<8206, 8292, 1>>, <<8294, 8304, 1>>, <<8308, 8318, 1>>,
         <<8320, 8334, 1>>, <<8352, 8384, 1>>, <<8448, 8485, 1>>, <<8487, 8489, 1>>,
         <<8492, 8497, 1>>, <<8499, 8525, 1>>, <<8527, 8543, 1>>, <<8585, 8587, 1>>,
         <<8592, 9254, 1>>, <<9280, 9290, 1>>, <<9312, 10239, 1>>, <<10496, 11123, 1>>,
         <<11126, 11157, 1>>, <<11159, 11263, 1>>, <<11776, 11869, 1>>, <<12272, 12283, 1>>,
         <<12288, 12292, 1>>, <<12294, 12294, 1>>, <<12296, 12320, 1>>, <<12336, 12343, 1>>,
         <<12348, 12351, 1>>, <<12443, 12444, 1>>, <<12448, 12448, 1>>, <<12539, 12540, 1>>,
         <<12688, 12703, 1>>, <<12736, 12771, 1>>, <<12832, 12895, 1>>, <<12927, 13007, 1>>,
         <<13055, 13055, 1>>, <<13144, 13311, 1>>, <<19904, 19967, 1>>, <<42752, 42785, 1>>,
         <<42888, 42890, 1>>, <<43056, 43065, 1>>, <<43310, 43310, 1>>, <<43471, 43471, 1>>,
         <<43867, 43867, 1>>, <<43882, 43883, 1>>, <<64830, 64831, 1>>, <<65040, 65049, 1>>,
         <<65072, 65106, 1>>, <<65108, 65126, 1>>, <<65128, 65131, 1>>, <<65279, 65279, 1>>,
         <<65281, 65312, 1>>, <<65339, 65344, 1>>, <<65371, 65381, 1>>, <<65392, 65392, 1>>,
         <<65438, 65439, 1>>, <<65504, 65510, 1>>, <<65512, 65518, 1>>, <<65529, 65533, 1>>,
         <<65792, 65794, 1>>, <<65799, 65843, 1>>, <<65847, 65855, 1>>, <<65936, 65948, 1>>,
         <<66000, 66044, 1>>, <<66273, 66299, 1>>, <<113824, 113827, 1>>, <<118608, 118723, 1>>,
         <<118784, 119029, 1>>, <<119040, 119078, 1>>, <<119081, 119142, 1>>, <<119146, 119162, 1>>,
         <<119171, 119172, 1>>, <<119180, 119209, 1>>, <<119214, 119274, 1>>, <<119488, 119507, 1>>,
         <<119520, 119539, 1>>, <<119552, 119638, 1>>, <<119648, 119672, 1>>, <<119808, 119892, 1>>,
         <<119894, 119964, 1>>, <<119966, 119967, 1>>, <<119970, 119970, 1>>, <<119973, 119974, 1>>,
         <<119977, 119980, 1>>, <<119982, 119993, 1>>, <<119995, 119995, 1>>, <<119997, 120003, 1>>,
         <<120005, 120069, 1>>, <<120071, 120074, 1>>, <<120077, 120084, 1>>, <<120086, 120092, 1>>,
         <<120094, 120121, 1>>, <<120123, 120126, 1>>, <<120128, 120132, 1>>, <<120134, 120134, 1>>,
         <<120138, 120144, 1>>, <<120146, 120485, 1>>, <<120488, 120779, 1>>, <<120782, 120831, 1>>,
         <<126065, 126132, 1>>, <<126209, 126269, 1>>, <<126976, 127019, 1>>, <<127024, 127123, 1>>,
         <<127136, 127150, 1>>, <<127153, 127167, 1>>, <<127169, 127183, 1>>, <<127185, 127221, 1>>,
         <<127232, 127405, 1>>, <<127462, 127487, 1>>, <<127489, 127490, 1>>, <<127504, 127547, 1>>,
         <<127552, 127560, 1>>, <<127568, 127569, 1>>, <<127584, 127589, 1>>, <<127744, 128727, 1>>,
         <<128732, 128748, 1>>, <<128752, 128764, 1>>, <<128768, 128886, 1>>, <<128891, 128985, 1>>,
         <<128992, 129003, 1>>, <<129008, 129008, 1>>, <<129024, 129035, 1>>, <<129040, 129095, 1>>,
         <<129104, 129113, 1>>, <<129120, 129159, 1>>, <<129168, 129197, 1>>, <<129200, 129201, 1>>,
         <<129280, 129619, 1>>, <<129632, 129645, 1>>, <<129648, 129660, 1>>, <<129664, 129672, 1>>,
         <<129680, 129725, 1>>, <<129727, 129733, 1>>, <<129742, 129755, 1>>, <<129760, 129768, 1>>,
         <<129776, 129784, 1>>, <<129792, 129938, 1>>, <<129940, 129994, 1>>, <<130032, 130041, 1>>,
         <<917505, 917505, 1>>, <<917536, 917631, 1>>})
    \* Coptic
    @@ (<<67, 111, 112, 116, 105, 99>> :>
        {<<994, 1007, 1>>, <<11392, 11507, 1>>, <<11513, 11519, 1>>})
    \* Cuneiform
    @@ (<<67, 117, 110, 101, 105, 102, 111, 114, 109>> :>
        {<<73728, 74649, 1>>, <<74752, 74862, 1>>, <<74864, 74868, 1>>, <<74880, 75075, 1>>})
    \* Cypriot
    @@ (<<67, 121, 112, 114, 105, 111, 116>> :>
        {<<67584, 67589, 1>>, <<67592, 67592, 1>>, <<67594, 67637, 1>>, <<67639, 67640, 1>>,
         <<67644, 67644, 1>>, <<67647, 67647, 1>>})
    \* Cypro_Minoan
    @@ (<<67, 121, 112, 114, 111, 95, 77, 105, 110, 111, 97, 110>> :>
        {<<77712, 77810, 1>>})
    \* Cyrillic
    @@ (<<67, 121, 114, 105, 108, 108, 105, 99>> :>
        {<<1024, 1156, 1>>, <<1159, 1327, 1>>, <<7296, 7304, 1>>, <<7467, 7467, 1>>,
         <<7544, 7544, 1>>, <<11744, 11775, 1>>, <<42560, 42655, 1>>, <<65070, 65071, 1>>,
         <<122928, 122989, 1>>, <<123023, 123023, 1>>})
    \* Deseret
    @@ (<<68, 101, 115, 101, 114, 101, 116>> :>
        {<<66560, 66639, 1>>})
    \* Devanagari
    @@ (<<68, 101, 118, 97, 110, 97, 103, 97, 114, 105>> :>
        {<<2304, 2384, 1>>, <<2389, 2403, 1>>, <<2406, 2431, 1>>, <<43232, 43263, 1>>,
         <<72448, 72457, 1>>})
    \* Dives_Akuru
    @@ (<<68, 105, 118, 101, 115, 95, 65, 107, 117, 114, 117>> :>
        {<<71936, 71942, 1>>, <<71945, 71945, 1>>, <<71948, 71955, 1>>, <<71957, 71958, 1>>,
         <<71960, 71989, 1>>, <<71991, 71992, 1>>, <<71995, 72006, 1>>, <<72016, 72025, 1>>})
    \* Dogra
    @@ (<<68, 111, 103, 114, 97>> :>
        {<<71680, 71739, 1>>})
    \* Duployan
    @@ (<<68, 117, 112, 108, 111, 121, 97, 110>> :>
        {<<113664, 113770, 1>>, <<113776, 113788, 1>>, <<113792, 113800, 1>>, <<113808, 113817, 1>>,
         <<113820, 113823, 1>>})
    \* Egyptian_Hieroglyphs
    @@ (<<69, 103, 121, 112, 116, 105, 97, 110, 95, 72, 105, 101, 114, 111, 103, 108, 121, 112, 104, 115>> :>
        {<<77824, 78933, 1>>})
    \* Elbasan
    @@ (<<69, 108, 98, 97, 115, 97, 110>> :>
        {<<66816, 66855, 1>>})
    \* Elymaic
    @@ (<<69, 108, 121, 109, 97, 105, 99>> :>
        {<<69600, 69622, 1>>})
    \* Ethiopic
    @@ (<<69, 116, 104, 105, 111, 112, 105, 99>> :>
        {<<4608, 4680, 1>>, <<4682, 4685, 1>>, <<4688, 4694, 1>>, <<4696, 4696, 1>>,
         <<4698, 4701, 1>>, <<4704, 4744, 1>>, <<4746, 4749, 1>>, <<4752, 4784, 1>>,
         <<4786, 4789, 1>>, <<4792, 4798, 1>>, <<4800, 4800, 1>>, <<4802, 4805, 1>>,
         <<4808, 4822, 1>>, <<4824, 4880, 1>>, <<4882, 4885, 1>>, <<4888, 4954, 1>>,
         <<4957, 4988, 1>>, <<4992, 5017, 1>>, <<11648, 11670, 1>>, <<11680, 11686, 1>>,
         <<11688, 11694, 1>>, <<11696, 11702, 1>>, <<11704, 11710, 1>>, <<11712, 11718, 1>>,
         <<11720, 11726, 1>>, <<11728, 11734, 1>>, <<11736, 11742, 1>>, <<43777, 43782, 1>>,
         <<43785, 43790, 1>>, <<43793, 43798, 1>>, <<43808, 43814, 1>>, <<43816, 43822, 1>>,
         <<124896, 124902, 1>>, <<124904, 124907, 1>>, <<124909, 124910, 1>>, <<124912, 124926, 1>>})
    \* Georgian
    @@ (<<71, 101, 111, 114, 103, 105, 97, 110>> :>
        {<<4256, 4293, 1>>, <<4295, 4295, 1>>, <<4301, 4301, 1>>, <<4304, 4346, 1>>,
         <<4348, 4351, 1>>, <<7312, 7354, 1>>, <<7357, 7359, 1>>, <<11520, 11557, 1>>,
         <<11559, 11559, 1>>, <<11565, 11565, 1>>})
    \* Glagolitic
    @@ (<<71, 108, 97, 103, 111, 108, 105, 116, 105, 99>> :>
        {<<11264, 11359, 1>>, <<122880, 122886, 1>>, <<122888, 122904, 1>>, <<122907, 122913, 1>>,
         <<122915, 122916, 1>>, <<122918, 122922, 1>>})
    \* Gothic
    @@ (<<71, 111, 116, 104, 105, 99>> :>
        {<<66352, 66378, 1>>})
    \* Grantha
    @@ (<<71, 114, 97, 110, 116, 104, 97>> :>
        {<<70400, 70403, 1>>, <<70405, 70412, 1>>, <<70415, 70416, 1>>, <<70419, 70440, 1>>,
         <<70442, 70448, 1>>, <<70450, 70451, 1>>, <<70453, 70457, 1>>, <<70460, 70468, 1>>,
         <<70471, 70472, 1>>, <<70475, 70477, 1>>, <<70480, 70480, 1>>, <<70487, 70487, 1>>,
         <<70493, 70499, 1>>, <<70502, 70508, 1>>, <<70512, 70516, 1>>})
    \* Greek
    @@ (<<71, 114, 101, 101, 107>> :>
        {<<880, 883, 1>>, <<885, 887, 1>>, <<890, 893, 1>>, <<895, 895, 1>>, <<900, 900, 1>>,
         <<902, 902, 1>>, <<904, 906, 1>>, <<908, 908, 1>>, <<910, 929, 1>>, <<931, 993, 1>>,
         <<1008, 1023, 1>>, <<7462, 7466, 1>>, <<7517, 7521, 1>>, <<7526, 7530, 1>>,
         <<7615, 7615, 1>>, <<7936, 7957, 1>>, <<7960, 7965, 1>>, <<7968, 8005, 1>>,
         <<8008, 8013, 1>>, <<8016, 8023, 1>>, <<8025, 8029, 2>>, <<8031, 8061, 1>>,
         <<8064, 8116, 1>>, <<8118, 8132, 1>>, <<8134, 8147, 1>>, <<8150, 8155, 1>>,
         <<8157, 8175, 1>>, <<8178, 8180, 1>>, <<8182, 8190, 1>>, <<8486, 8486, 1>>,
         <<43877, 43877, 1>>, <<65856, 65934, 1>>, <<65952, 65952, 1>>, <<119296, 119365, 1>>})
    \* Gujarati
    @@ (<<71, 117, 106, 97, 114, 97, 116, 105>> :>
        {<<2689, 2691, 1>>, <<2693, 2701, 1>>, <<2703, 2705, 1>>, <<2707, 2728, 1>>,
         <<2730, 2736, 1>>, <<2738, 2739, 1>>, <<2741, 2745, 1>>, <<2748, 2757, 1>>,
         <<2759, 2761, 1>>, <<2763, 2765, 1>>, <<2768, 2768, 1>>, <<2784, 2787, 1>>,
         <<2790, 2801, 1>>, <<2809, 2815, 1>>})
    \* Gunjala_Gondi
    @@ (<<71, 117, 110, 106, 97, 108, 97, 95, 71, 111, 110, 100, 105>> :>
        {<<73056, 73061, 1>>, <<73063, 73064, 1>>, <<73066, 73102, 1>>, <<73104, 73105, 1>>,
         <<73107, 73112, 1>>, <<73120, 73129, 1>>})
    \* Gurmukhi
    @@ (<<71, 117, 114, 109, 117, 107, 104, 105>> :>
        {<<2561, 2563, 1>>, <<2565, 2570, 1>>, <<2575, 2576, 1>>, <<2579, 2600, 1>>,
         <<2602, 2608, 1>>, <<2610, 2611, 1>>, <<2613, 2614, 1>>, <<2616, 2617, 1>>,
         <<2620, 2620, 1>>, <<2622, 2626, 1>>, <<2631, 2632, 1>>, <<2635, 2637, 1>>,
         <<2641, 2641, 1>>, <<2649, 2652, 1>>, <<2654, 2654, 1>>, <<2662, 2678, 1>>})
    \* Han
    @@ (<<72, 97, 110>> :>
        {<<11904, 11929, 1>>, <<11931, 12019, 1>>, <<12032, 12245, 1>>, <<12293, 12293, 1>>,
         <<12295, 12295, 1>>, <<12321, 12329, 1>>, <<12344, 12347, 1>>, <<13312, 19903, 1>>,
         <<19968, 40959, 1>>, <<63744, 64109, 1>>, <<64112, 64217, 1>>, <<94178, 94179, 1>>,
         <<94192, 94193, 1>>, <<131072, 173791, 1>>, <<173824, 177977, 1>>, <<177984, 178205, 1>>,
         <<178208, 183969, 1>>, <<183984, 191456, 1>>, <<194560, 195101, 1>>, <<196608, 201546, 1>>,
         <<201552, 205743, 1>>})
    \* Hangul
    @@ (<<72, 97, 110, 103, 117, 108>> :>
        {<<4352, 4607, 1>>, <<12334, 12335, 1>>, <<12593, 12686, 1>>, <<12800, 12830, 1>>,
         <<12896, 12926, 1>>, <<43360, 43388, 1>>, <<44032, 55203, 1>>, <<55216, 55238, 1>>,
         <<55243, 55291, 1>>, <<65440, 65470, 1>>, <<65474, 65479, 1>>, <<65482, 65487, 1>>,
         <<65490, 65495, 1>>, <<65498, 65500, 1>>})
    \* Hanifi_Rohingya
    @@ (<<72, 97, 110, 105, 102, 105, 95, 82, 111, 104, 105, 110, 103, 121, 97>> :>
        {<<68864, 68903, 1>>, <<68912, 68921, 1>>})
    \* Hanunoo
    @@ (<<72, 97, 110, 117, 110, 111, 111>> :>
        {<<5920, 5940, 1>>})
    \* Hatran
    @@ (<<72, 97, 116, 114, 97, 110>> :>
        {<<67808, 67826, 1>>, <<67828, 67829, 1>>, <<67835, 67839, 1>>})
    \* Hebrew
    @@ (<<72, 101, 98, 114, 101, 119>> :>
        {<<1425, 1479, 1>>, <<1488, 1514, 1>>, <<1519, 1524, 1>>, <<64285, 64310, 1>>,
         <<64312, 64316, 1>>, <<64318, 64318, 1>>, <<64320, 64321, 1>>, <<64323, 64324, 1>>,
         <<64326, 64335, 1>>})
    \* Hiragana
    @@ (<<72, 105, 114, 97, 103, 97, 110, 97>> :>
        {<<12353, 12438, 1>>, <<12445, 12447, 1>>, <<110593, 110879, 1>>, <<110898, 110898, 1>>,
         <<110928, 110930, 1>>, <<127488, 127488, 1>>})
    \* Imperial_Aramaic
    @@ (<<73, 109, 112, 101, 114, 105, 97, 108, 95, 65, 114, 97, 109, 97, 105, 99>> :>
        {<<67648, 67669, 1>>, <<67671, 67679, 1>>})
    \* Inherited
    @@ (<<73, 110, 104, 101, 114, 105, 116, 101, 100>> :>
        {<<768, 879, 1>>, <<1157, 1158, 1>>, <<1611, 1621, 1>>, <<1648, 1648, 1>>,
         <<2385, 2388, 1>>, <<6832, 6862, 1>>, <<7376, 7378, 1>>, <<7380, 7392, 1>>,
         <<7394, 7400, 1>>, <<7405, 7405, 1>>, <<7412, 7412, 1>>, <<7416, 7417, 1>>,
         <<7616, 7679, 1>>, <<8204, 8205, 1>>, <<8400, 8432, 1>>, <<12330, 12333, 1>>,
         <<12441, 12442, 1>>, <<65024, 65039, 1>>, <<65056, 65069, 1>>, <<66045, 66045, 1>>,
         <<66272, 66272, 1>>, <<70459, 70459, 1>>, <<118528, 118573, 1>>, <<118576, 118598, 1>>,
         <<119143, 119145, 1>>, <<119163, 119170, 1>>, <<119173, 119179, 1>>, <<119210, 119213, 1>>,
         <<917760, 917999, 1>>})
    \* Inscriptional_Pahlavi
    @@ (<<73, 110, 115, 99, 114, 105, 112, 116, 105, 111, 110, 97, 108, 95, 80, 97, 104, 108, 97, 118, 105>> :>
        {<<68448, 68466, 1>>, <<68472, 68479, 1>>})
    \* Inscriptional_Parthian
    @@ (<<73, 110, 115, 99, 114, 105, 112, 116, 105, 111, 110, 97, 108, 95, 80, 97, 114, 116, 104, 105, 97, 110>> :>
        {<<68416, 68437, 1>>, <<68440, 68447, 1>>})
    \* Javanese
    @@ (<<74, 97, 118, 97, 110, 101, 115, 101>> :>
        {<<43392, 43469, 1>>, <<43472, 43481, 1>>, <<43486, 43487, 1>>})
    \* Kaithi
    @@ (<<75, 97, 105, 116, 104, 105>> :>
        {<<69760, 69826, 1>>, <<69837, 69837, 1>>})
    \* Kannada
    @@ (<<75, 97, 110, 110, 97, 100, 97>> :>
        {<<3200, 3212, 1>>, <<3214, 3216, 1>>, <<3218, 3240, 1>>, <<3242, 3251, 1>>,
         <<3253, 3257, 1>>, <<3260, 3268, 1>>, <<3270, 3272, 1>>, <<3274, 3277, 1>>,
         <<3285, 3286, 1>>, <<3293, 3294, 1>>, <<3296, 3299, 1>>, <<3302, 3311, 1>>,
         <<3313, 3315, 1>>})
    \* Katakana
    @@ (<<75, 97, 116, 97, 107, 97, 110, 97>> :>
        {<<12449, 12538, 1>>, <<12541, 12543, 1>>, <<12784, 12799, 1>>, <<13008, 13054, 1>>,
         <<13056, 13143, 1>>, <<65382, 65391, 1>>, <<65393, 65437, 1>>, <<110576, 110579, 1>>,
         <<110581, 110587, 1>>, <<110589, 110590, 1>>, <<110592, 110592, 1>>, <<110880, 110882, 1>>,
         <<110933, 110933, 1>>, <<110948, 110951, 1>>})
    \* Kawi
    @@ (<<75, 97, 119, 105>> :>
        {<<73472, 73488, 1>>, <<73490, 73530, 1>>, <<73534, 73561, 1>>})
    \* Kayah_Li
    @@ (<<75, 97, 121, 97, 104, 95, 76, 105>> :>
        {<<43264, 43309, 1>>, <<43311, 43311, 1>>})
    \* Kharoshthi
    @@ (<<75, 104, 97, 114, 111, 115, 104, 116, 104, 105>> :>
        {<<68096, 68099, 1>>, <<68101, 68102, 1>>, <<68108, 68115, 1>>, <<68117, 68119, 1>>,
         <<68121, 68149, 1>>, <<68152, 68154, 1>>, <<68159, 68168, 1>>, <<68176, 68184, 1>>})
    \* Khitan_Small_Script
    @@ (<<75, 104, 105, 116, 97, 110, 95, 83, 109, 97, 108, 108, 95, 83, 99, 114, 105, 112, 116>> :>
        {<<94180, 94180, 1>>, <<101120, 101589, 1>>})
    \* Khmer
    @@ (<<75, 104, 109, 101, 114>> :>
        {<<6016, 6109, 1>>, <<6112, 6121, 1>>, <<6128, 6137, 1>>, <<6624, 6655, 1>>})
    \* Khojki
    @@ (<<75, 104, 111, 106, 107, 105>> :>
        {<<70144, 70161, 1>>, <<70163, 70209, 1>>})
    \* Khudawadi
    @@ (<<75, 104, 117, 100, 97, 119, 97, 100, 105>> :>
        {<<70320, 70378, 1>>, <<70384, 70393, 1>>})
    \* Lao
    @@ (<<76, 97, 111>> :>
        {<<3713, 3714, 1>>, <<3716, 3716, 1>>, <<3718, 3722, 1>>, <<3724, 3747, 1>>,
         <<3749, 3749, 1>>, <<3751, 3773, 1>>, <<3776, 3780, 1>>, <<3782, 3782, 1>>,
         <<3784, 3790, 1>>, <<3792, 3801, 1>>, <<3804, 3807, 1>>})
    \* Latin
    @@ (<<76, 97, 116, 105, 110>> :>
        {<<65, 90, 1>>, <<97, 122, 1>>, <<170, 170, 1>>, <<186, 186, 1>>, <<192, 214, 1>>,
         <<216, 246, 1>>, <<248, 696, 1>>, <<736, 740, 1>>, <<7424, 7461, 1>>, <<7468, 7516, 1>>,
         <<7522, 7525, 1>>, <<7531, 7543, 1>>, <<7545, 7614, 1>>, <<7680, 7935, 1>>,
         <<8305, 8305, 1>>, <<8319, 8319, 1>>, <<8336, 8348, 1>>, <<8490, 8491, 1>>,
         <<8498, 8498, 1>>, <<8526, 8526, 1>>, <<8544, 8584, 1>>, <<11360, 11391, 1>>,
         <<42786, 42887, 1>>, <<42891, 42954, 1>>, <<42960, 42961, 1>>, <<42963, 42963, 1>>,
         <<42965, 42969, 1>>, <<42994, 43007, 1>>, <<43824, 43866, 1>>, <<43868, 43876, 1>>,
         <<43878, 43881, 1>>, <<64256, 64262, 1>>, <<65313, 65338, 1>>, <<65345, 65370, 1>>,
         <<67456, 67461, 1>>, <<67463, 67504, 1>>, <<67506, 67514, 1>>, <<122624, 122654, 1>>,
         <<122661, 122666, 1>>})
    \* Lepcha
    @@ (<<76, 101, 112, 99, 104, 97>> :>
        {<<7168, 7223, 1>>, <<7227, 7241, 1>>, <<7245, 7247, 1>>})
    \* Limbu
    @@ (<<76, 105, 109, 98, 117>> :>
        {<<6400, 6430, 1>>, <<6432, 6443, 1>>, <<6448, 6459, 1>>, <<6464, 6464, 1>>,
         <<6468, 6479, 1>>})
    \* Linear_A
    @@ (<<76, 105, 110, 101, 97, 114, 95, 65>> :>
        {<<67072, 67382, 1>>, <<67392, 67413, 1>>, <<67424, 67431, 1>>})
    \* Linear_B
    @@ (<<76, 105, 110, 101, 97, 114, 95, 66>> :>
        {<<65536, 65547, 1>>, <<65549, 65574, 1>>, <<65576, 65594, 1>>, <<65596, 65597, 1>>,
         <<65599, 65613, 1>>, <<65616, 65629, 1>>, <<65664, 65786, 1>>})
    \* Lisu
    @@ (<<76, 105, 115, 117>> :>
        {<<42192, 42239, 1>>, <<73648, 73648, 1>>})
    \* Lycian
    @@ (<<76, 121, 99, 105, 97, 110>> :>
        {<<66176, 66204, 1>>})
    \* Lydian
    @@ (<<76, 121, 100, 105, 97, 110>> :>
        {<<67872, 67897, 1>>, <<67903, 67903, 1>>})
    \* Mahajani
    @@ (<<77, 97, 104, 97, 106, 97, 110, 105>> :>
        {<<69968, 70006, 1>>})
    \* Makasar
    @@ (<<77, 97, 107, 97, 115, 97, 114>> :>
        {<<73440, 73464, 1>>})
    \* Malayalam
    @@ (<<77, 97, 108, 97, 121, 97, 108, 97, 109>> :>
        {<<3328, 3340, 1>>, <<3342, 3344, 1>>, <<3346, 3396, 1>>, <<3398, 3400, 1>>,
         <<3402, 3407, 1>>, <<3412, 3427, 1>>, <<3430, 3455, 1>>})
    \* Mandaic
    @@ (<<77, 97, 110, 100, 97, 105, 99>> :>
        {<<2112, 2139, 1>>, <<2142, 2142, 1>>})
    \* Manichaean
    @@ (<<77, 97, 110, 105, 99, 104, 97, 101, 97, 110>> :>
        {<<68288, 68326, 1>>, <<68331, 68342, 1>>})
    \* Marchen
    @@ (<<77, 97, 114, 99, 104, 101, 110>> :>
        {<<72816, 72847, 1>>, <<72850, 72871, 1>>, <<72873, 72886, 1>>})
    \* Masaram_Gondi
    @@ (<<77, 97, 115, 97, 114, 97, 109, 95, 71, 111, 110, 100, 105>> :>
        {<<72960, 72966, 1>>, <<72968, 72969, 1>>, <<72971, 73014, 1>>, <<73018, 73018, 1>>,
         <<73020, 73021, 1>>, <<73023, 73031, 1>>, <<73040, 73049, 1>>})
    \* Medefaidrin
    @@ (<<77, 101, 100, 101, 102, 97, 105, 100, 114, 105, 110>> :>
        {<<93760, 93850, 1>>})
    \* Meetei_Mayek
    @@ (<<77, 101, 101, 116, 101, 105, 95, 77, 97, 121, 101, 107>> :>
        {<<43744, 43766, 1>>, <<43968, 44013, 1>>, <<44016, 44025, 1>>})
    \* Mende_Kikakui
    @@ (<<77, 101, 110, 100, 101, 95, 75, 105, 107, 97, 107, 117, 105>> :>
        {<<124928, 125124, 1>>, <<125127, 125142, 1>>})
    \* Meroitic_Cursive
    @@ (<<77, 101, 114, 111, 105, 116, 105, 99, 95, 67, 117, 114, 115, 105, 118, 101>> :>
        {<<68000, 68023, 1>>, <<68028, 68047, 1>>, <<68050, 68095, 1>>})
    \* Meroitic_Hieroglyphs
    @@ (<<77, 101, 114, 111, 105, 116, 105, 99, 95, 72, 105, 101, 114, 111, 103, 108, 121, 112, 104, 115>> :>
        {<<67968, 67999, 1>>})
    \* Miao
    @@ (<<77, 105, 97, 111>> :>
        {<<93952, 94026, 1>>, <<94031, 94087, 1>>, <<94095, 94111, 1>>})
    \* Modi
    @@ (<<77, 111, 100, 105>> :>
        {<<71168, 71236, 1>>, <<71248, 71257, 1>>})
    \* Mongolian
    @@ (<<77, 111, 110, 103, 111, 108, 105, 97, 110>> :>
        {<<6144, 6145, 1>>, <<6148, 6148, 1>>, <<6150, 6169, 1>>, <<6176, 6264, 1>>,
         <<6272, 6314, 1>>, <<71264, 71276, 1>>})
    \* Mro
    @@ (<<77, 114, 111>> :>
        {<<92736, 92766, 1>>, <<92768, 92777, 1>>, <<92782, 92783, 1>>})
    \* Multani
    @@ (<<77, 117, 108, 116, 97, 110, 105>> :>
        {<<70272, 70278, 1>>, <<70280, 70280, 1>>, <<70282, 70285, 1>>, <<70287, 70301, 1>>,
         <<70303, 70313, 1>>})
    \* Myanmar
    @@ (<<77, 121, 97, 110, 109, 97, 114>> :>
        {<<4096, 4255, 1>>, <<43488, 43518, 1>>, <<43616, 43647, 1>>})
    \* Nabataean
    @@ (<<78, 97, 98, 97, 116, 97, 101, 97, 110>> :>
        {<<67712, 67742, 1>>, <<67751, 67759, 1>>})
    \* Nag_Mundari
    @@ (<<78, 97, 103, 95, 77, 117, 110, 100, 97, 114, 105>> :>
        {<<124112, 124153, 1>>})
    \* Nandinagari
    @@ (<<78, 97, 110, 100, 105, 110, 97, 103, 97, 114, 105>> :>
        {<<72096, 72103, 1>>, <<72106, 72151, 1>>, <<72154, 72164, 1>>})
    \* New_Tai_Lue
    @@ (<<78, 101, 119, 95, 84, 97, 105, 95, 76, 117, 101>> :>
        {<<6528, 6571, 1>>, <<6576, 6601, 1>>, <<6608, 6618, 1>>, <<6622, 6623, 1>>})
    \* Newa
    @@ (<<78, 101, 119, 97>> :>
        {<<70656, 70747, 1>>, <<70749, 70753, 1>>})
    \* Nko
    @@ (<<78, 107, 111>> :>
        {<<1984, 2042, 1>>, <<2045, 2047, 1>>})
    \* Nushu
    @@ (<<78, 117, 115, 104, 117>> :>
        {<<94177, 94177, 1>>, <<110960, 111355, 1>>})
    \* Nyiakeng_Puachue_Hmong
    @@ (<<78, 121, 105, 97, 107, 101, 110, 103, 95, 80, 117, 97, 99, 104, 117, 101, 95, 72, 109, 111, 110, 103>> :>
        {<<123136, 123180, 1>>, <<123184, 123197, 1>>, <<123200, 123209, 1>>, <<123214, 123215, 1>>})
    \* Ogham
    @@ (<<79, 103, 104, 97, 109>> :>
        {<<5760, 5788, 1>>})
    \* Ol_Chiki
    @@ (<<79, 108, 95, 67, 104, 105, 107, 105>> :>
        {<<7248, 7295, 1>>})
    \* Old_Hungarian
    @@ (<<79, 108, 100, 95, 72, 117, 110, 103, 97, 114, 105, 97, 110>> :>
        {<<68736, 68786, 1>>, <<68800, 68850, 1>>, <<68858, 68863, 1>>})
    \* Old_Italic
    @@ (<<79, 108, 100, 95, 73, 116, 97, 108, 105, 99>> :>
        {<<66304, 66339, 1>>, <<66349, 66351, 1>>})
    \* Old_North_Arabian
    @@ (<<79, 108, 100, 95, 78, 111, 114, 116, 104, 95, 65, 114, 97, 98, 105, 97, 110>> :>
        {<<68224, 68255, 1>>})
    \* Old_Permic
    @@ (<<79, 108, 100, 95, 80, 101, 114, 109, 105, 99>> :>
        {<<66384, 66426, 1>>})
    \* Old_Persian
    @@ (<<79, 108, 100, 95, 80, 101, 114, 115, 105, 97, 110>> :>
        {<<66464, 66499, 1>>, <<66504, 66517, 1>>})
    \* Old_Sogdian
    @@ (<<79, 108, 100, 95, 83, 111, 103, 100, 105, 97, 110>> :>
        {<<69376, 69415, 1>>})
    \* Old_South_Arabian
    @@ (<<79, 108, 100, 95, 83, 111, 117, 116, 104, 95, 65, 114, 97, 98, 105, 97, 110>> :>
        {<<68192, 68223, 1>>})
    \* Old_Turkic
    @@ (<<79, 108, 100, 95, 84, 117, 114, 107, 105, 99>> :>
        {<<68608, 68680, 1>>})
    \* Old_Uyghur
    @@ (<<79, 108, 100, 95, 85, 121, 103, 104, 117, 114>> :>
        {<<69488, 69513, 1>>})
    \* Oriya
    @@ (<<79, 114, 105, 121, 97>> :>
        {<<2817, 2819, 1>>, <<2821, 2828, 1>>, <<2831, 2832, 1>>, <<2835, 2856, 1>>,
         <<2858, 2864, 1>>, <<2866, 2867, 1>>, <<2869, 2873, 1>>, <<2876, 2884, 1>>,
         <<2887, 2888, 1>>, <<2891, 2893, 1>>, <<2901, 2903, 1>>, <<2908, 2909, 1>>,
         <<2911, 2915, 1>>, <<2918, 2935, 1>>})
    \* Osage
    @@ (<<79, 115, 97, 103, 101>> :>
        {<<66736, 66771, 1>>, <<66776, 66811, 1>>})
    \* Osmanya
    @@ (<<79, 115, 109, 97, 110, 121, 97>> :>
        {<<66688, 66717, 1>>, <<66720, 66729, 1>>})
    \* Pahawh_Hmong
    @@ (<<80, 97, 104, 97, 119, 104, 95, 72, 109, 111, 110, 103>> :>
        {<<92928, 92997, 1>>, <<93008, 93017, 1>>, <<93019, 93025, 1>>, <<93027, 93047, 1>>,
         <<93053, 93071, 1>>})
    \* Palmyrene
    @@ (<<80, 97, 108, 109, 121, 114, 101, 110, 101>> :>
        {<<67680, 67711, 1>>})
    \* Pau_Cin_Hau
    @@ (<<80, 97, 117, 95, 67, 105, 110, 95, 72, 97, 117>> :>
        {<<72384, 72440, 1>>})
    \* Phags_Pa
    @@ (<<80, 104, 97, 103, 115, 95, 80, 97>> :>
        {<<43072, 43127, 1>>})
    \* Phoenician
    @@ (<<80, 104, 111, 101, 110, 105, 99, 105, 97, 110>> :>
        {<<67840, 67867, 1>>, <<67871, 67871, 1>>})
    \* Psalter_Pahlavi
    @@ (<<80, 115, 97, 108, 116, 101, 114, 95, 80, 97, 104, 108, 97, 118, 105>> :>
        {<<68480, 68497, 1>>, <<68505, 68508, 1>>, <<68521, 68527, 1>>})
    \* Rejang
    @@ (<<82, 101, 106, 97, 110, 103>> :>
        {<<43312, 43347, 1>>, <<43359, 43359, 1>>})
    \* Runic
    @@ (<<82, 117, 110, 105, 99>> :>
        {<<5792, 5866, 1>>, <<5870, 5880, 1>>})
    \* Samaritan
    @@ (<<83, 97, 109, 97, 114, 105, 116, 97, 110>> :>
        {<<2048, 2093, 1>>, <<2096, 2110, 1>>})
    \* Saurashtra
    @@ (<<83, 97, 117, 114, 97, 115, 104, 116, 114, 97>> :>
        {<<43136, 43205, 1>>, <<43214, 43225, 1>>})
    \* Sharada
    @@ (<<83, 104, 97, 114, 97, 100, 97>> :>
        {<<70016, 70111, 1>>})
    \* Shavian
    @@ (<<83, 104, 97, 118, 105, 97, 110>> :>
        {<<66640, 66687, 1>>})
    \* Siddham
    @@ (<<83, 105, 100, 100, 104, 97, 109>> :>
        {<<71040, 71093, 1>>, <<71096, 71133, 1>>})
    \* SignWriting
    @@ (<<83, 105, 103, 110, 87, 114, 105, 116, 105, 110, 103>> :>
        {<<120832, 121483, 1>>, <<121499, 121503, 1>>, <<121505, 121519, 1>>})
    \* Sinhala
    @@ (<<83, 105, 110, 104, 97, 108, 97>> :>
        {<<3457, 3459, 1>>, <<3461, 3478, 1>>, <<3482, 3505, 1>>, <<3507, 3515, 1>>,
         <<3517, 3517, 1>>, <<3520, 3526, 1>>, <<3530, 3530, 1>>, <<3535, 3540, 1>>,
         <<3542, 3542, 1>>, <<3544, 3551, 1>>, <<3558, 3567, 1>>, <<3570, 3572, 1>>,
         <<70113, 70132, 1>>})
    \* Sogdian
    @@ (<<83, 111, 103, 100, 105, 97, 110>> :>
        {<<69424, 69465, 1>>})
    \* Sora_Sompeng
    @@ (<<83, 111, 114, 97, 95, 83, 111, 109, 112, 101, 110, 103>> :>
        {<<69840, 69864, 1>>, <<69872, 69881, 1>>})
    \* Soyombo
    @@ (<<83, 111, 121, 111, 109, 98, 111>> :>
        {<<72272, 72354, 1>>})
    \* Sundanese
    @@ (<<83, 117, 110, 100, 97, 110, 101, 115, 101>> :>
        {<<7040, 7103, 1>>, <<7360, 7367, 1>>})
    \* Syloti_Nagri
    @@ (<<83, 121, 108, 111, 116, 105, 95, 78, 97, 103, 114, 105>> :>
        {<<43008, 43052, 1>>})
    \* Syriac
    @@ (<<83, 121, 114, 105, 97, 99>> :>
        {<<1792, 1805, 1>>, <<1807, 1866, 1>>, <<1869, 1871, 1>>, <<2144, 2154, 1>>})
    \* Tagalog
    @@ (<<84, 97, 103, 97, 108, 111, 103>> :>
        {<<5888, 5909, 1>>, <<5919, 5919, 1>>})
    \* Tagbanwa
    @@ (<<84, 97, 103, 98, 97, 110, 119, 97>> :>
        {<<5984, 5996, 1>>, <<5998, 6000, 1>>, <<6002, 6003, 1>>})
    \* Tai_Le
    @@ (<<84, 97, 105, 95, 76, 101>> :>
        {<<6480, 6509, 1>>, <<6512, 6516, 1>>})
    \* Tai_Tham
    @@ (<<84, 97, 105, 95, 84, 104, 97, 109>> :>
        {<<6688, 6750, 1>>, <<6752, 6780, 1>>, <<6783, 6793, 1>>, <<6800, 6809, 1>>,
         <<6816, 6829, 1>>})
    \* Tai_Viet
    @@ (<<84, 97, 105, 95, 86, 105, 101, 116>> :>
        {<<43648, 43714, 1>>, <<43739, 43743, 1>>})
    \* Takri
    @@ (<<84, 97, 107, 114, 105>> :>
        {<<71296, 71353, 1>>, <<71360, 71369, 1>>})
    \* Tamil
    @@ (<<84, 97, 109, 105, 108>> :>
        {<<2946, 2947, 1>>, <<2949, 2954, 1>>, <<2958, 2960, 1>>, <<2962, 2965, 1>>,
         <<2969, 2970, 1>>, <<2972, 2972, 1>>, <<2974, 2975, 1>>, <<2979, 2980, 1>>,
         <<2984, 2986, 1>>, <<2990, 3001, 1>>, <<3006, 3010, 1>>, <<3014, 3016, 1>>,
         <<3018, 3021, 1>>, <<3024, 3024, 1>>, <<3031, 3031, 1>>, <<3046, 3066, 1>>,
         <<73664, 73713, 1>>, <<73727, 73727, 1>>})
    \* Tangsa
    @@ (<<84, 97, 110, 103, 115, 97>> :>
        {<<92784, 92862, 1>>, <<92864, 92873, 1>>})
    \* Tangut
    @@ (<<84, 97, 110, 103, 117, 116>> :>
        {<<94176, 94176, 1>>, <<94208, 100343, 1>>, <<100352, 101119, 1>>, <<101632, 101640, 1>>})
    \* Telugu
    @@ (<<84, 101, 108, 117, 103, 117>> :>
        {<<3072, 3084, 1>>, <<3086, 3088, 1>>, <<3090, 3112, 1>>, <<3114, 3129, 1>>,
         <<3132, 3140, 1>>, <<3142, 3144, 1>>, <<3146, 3149, 1>>, <<3157, 3158, 1>>,
         <<3160, 3162, 1>>, <<3165, 3165, 1>>, <<3168, 3171, 1>>, <<3174, 3183, 1>>,
         <<3191, 3199, 1>>})
    \* Thaana
    @@ (<<84, 104, 97, 97, 110, 97>> :>
        {<<1920, 1969, 1>>})
    \* Thai
    @@ (<<84, 104, 97, 105>> :>
        {<<3585, 3642, 1>>, <<3648, 3675, 1>>})
    \* Tibetan
    @@ (<<84, 105, 98, 101, 116, 97, 110>> :>
        {<<3840, 3911, 1>>, <<3913, 3948, 1>>, <<3953, 3991, 1>>, <<3993, 4028, 1>>,
         <<4030, 4044, 1>>, <<4046, 4052, 1>>, <<4057, 4058, 1>>})
    \* Tifinagh
    @@ (<<84, 105, 102, 105, 110, 97, 103, 104>> :>
        {<<11568, 11623, 1>>, <<11631, 11632, 1>>, <<11647, 11647, 1>>})
    \* Tirhuta
    @@ (<<84, 105, 114, 104, 117, 116, 97>> :>
        {<<70784, 70855, 1>>, <<70864, 70873, 1>>})
    \* Toto
    @@ (<<84, 111, 116, 111>> :>
        {<<123536, 123566, 1>>})
    \* Ugaritic
    @@ (<<85, 103, 97, 114, 105, 116, 105, 99>> :>
        {<<66432, 66461, 1>>, <<66463, 66463, 1>>})
    \* Vai
    @@ (<<86, 97, 105>> :>
        {<<42240, 42539, 1>>})
    \* Vithkuqi
    @@ (<<86, 105, 116, 104, 107, 117, 113, 105>> :>
        {<<66928, 66938, 1>>, <<66940, 66954, 1>>, <<66956, 66962, 1>>, <<66964, 66965, 1>>,
         <<66967, 66977, 1>>, <<66979, 66993, 1>>, <<66995, 67001, 1>>, <<67003, 67004, 1>>})
    \* Wancho
    @@ (<<87, 97, 110, 99, 104, 111>> :>
        {<<123584, 123641, 1>>, <<123647, 123647, 1>>})
    \* Warang_Citi
    @@ (<<87, 97, 114, 97, 110, 103, 95, 67, 105, 116, 105>> :>
        {<<71840, 71922, 1>>, <<71935, 71935, 1>>})
    \* Yezidi
    @@ (<<89, 101, 122, 105, 100, 105>> :>
        {<<69248, 69289, 1>>, <<69291, 69293, 1>>, <<69296, 69297, 1>>})
    \* Yi
    @@ (<<89, 105>> :>
        {<<40960, 42124, 1>>, <<42128, 42182, 1>>})
    \* Zanabazar_Square
    @@ (<<90, 97, 110, 97, 98, 97, 122, 97, 114, 95, 83, 113, 117, 97, 114, 101>> :>
        {<<72192, 72263, 1>>})

(***************************************************************************)
(* package time                                                            *)
(***************************************************************************)

IsLeap(y) == (y % 4 = 0 /\ y % 100 # 0) \/ y % 400 = 0

DaysIn(y, m) ==
    IF m = 2 THEN (IF IsLeap(y) THEN 29 ELSE 28)
    ELSE IF m \in {4, 6, 9, 11} THEN 30 ELSE 31

\* days from 1970-01-01 to the civil date y-m-d (proleptic Gregorian), for the
\* year yy that starts in March and its month mp counted from March
DaysFromMarch(yy, mp, d) ==
    (yy \div 400) * 146097 + (yy % 400) * 365 + (yy % 400) \div 4 - (yy % 400) \div 100
    + (153 * mp + 2) \div 5 + d - 1 - 719468

DaysFromCivil(y, m, d) ==
    IF m <= 2 THEN DaysFromMarch(y - 1, m + 9, d) ELSE DaysFromMarch(y, m - 3, d)

\* the civil date of day number z: from the day of the 400 year era (doe) to
\* the year of the era (yoe), the day of the year (doy) and the month (mp)
CivilOfMonth(era, yoe, doy, mp) ==
    [year  |-> yoe + era * 400 + (IF mp < 10 THEN 0 ELSE 1),
     month |-> IF mp < 10 THEN mp + 3 ELSE mp - 9,
     day   |-> doy - (153 * mp + 2) \div 5 + 1]

CivilOfDay(era, yoe, doy) == CivilOfMonth(era, yoe, doy, (5 * doy + 2) \div 153)

CivilOfYear(era, doe, yoe) ==
    CivilOfDay(era, yoe, doe - (365 * yoe + yoe \div 4 - yoe \div 100))

CivilOfEra(era, doe) ==
    CivilOfYear(era, doe, (doe - doe \div 1460 + doe \div 36524 - doe \div 146096) \div 365)

CivilFromDays(z) == CivilOfEra((z + 719468) \div 146097, (z + 719468) % 146097)

\* time.Date(y, m, d, hh, mm, ss, ns, loc) for a zone at offset off
TimeDate(y, m, d, hh, mm, ss, ns, off) ==
    [sec |-> DaysFromCivil(y, m, d) * 86400 + hh * 3600 + mm * 60 + ss - off, nsec |-> ns]

\* the civil date of day number days with the clock of second r of the day
CivilClock(date, r) ==
    [year |-> date.year, month |-> date.month, day |-> date.day,
     hour |-> r \div 3600, minute |-> (r % 3600) \div 60, second |-> r % 60]

\* t.Year(), t.Month(), t.Day(), clock of instant t shown at offset off
Civil(t, off) == CivilClock(CivilFromDays((t.sec + off) \div 86400), (t.sec + off) % 86400)

\* t.After(u), t.Before(u)
After(t, u) == t.sec > u.sec \/ (t.sec = u.sec /\ t.nsec > u.nsec)
Before(t, u) == t.sec < u.sec \/ (t.sec = u.sec /\ t.nsec < u.nsec)

\* t.Add(d) for a duration of whole seconds
AddSeconds(t, s) == [sec |-> t.sec + s, nsec |-> t.nsec]

\* the date y-m-d as time.Parse checks and returns it
ParsedDate(y, m, d) ==
    IF m < 1 \/ m > 12 \/ d < 1 \/ d > DaysIn(y, m) THEN [ok |-> FALSE]
    ELSE [ok |-> TRUE, t |-> TimeDate(y, m, d, 0, 0, 0, 0, 0)]

\* time.Parse(dateFormat, s) with dateFormat = "20060102":
\* [ok |-> FALSE] on error, else the instant of 00:00:00 UTC of that day
ParseDate(s) ==
    IF Len(s) # 8 \/ \E i \in 1..Len(s) : ~IsDigit(s[i]) THEN [ok |-> FALSE]
    ELSE ParsedDate(Atoi(SubSeq(s, 1, 4)), Atoi(SubSeq(s, 5, 6)), Atoi(SubSeq(s, 7, 8)))

\* the nanoseconds of Time.String(): ".999999999" with trailing zeros removed,
\* nothing when nsec = 0
RECURSIVE TrimZeros(_)
TrimZeros(s) == IF s # <<>> /\ s[Len(s)] = 48 THEN TrimZeros(SubSeq(s, 1, Len(s) - 1)) ELSE s

Fraction(ns) == IF ns = 0 THEN <<>> ELSE B(".") \o TrimZeros(Pad(ns, 9))

\* "2006-01-02 15:04:05" of the civil time c; the year has five digits or
\* more from 10000 on and a '-' before year 0
FormatCivil(c) ==
    appendInt(c.year, 4) \o B("-") \o appendInt(c.month, 2) \o B("-") \o appendInt(c.day, 2)
    \o B(" ") \o appendInt(c.hour, 2) \o B(":") \o appendInt(c.minute, 2) \o B(":")
    \o appendInt(c.second, 2)

\* "2006-01-02 15:04:05" of instant t at offset off
FormatSeconds(t, off) == FormatCivil(Civil(t, off))

\* zone := offset / 60 of Time.appendFormat: Go's division of integers
\* truncates toward zero
ZoneMinutes(off) == IF off < 0 THEN -((-off) \div 60) ELSE off \div 60

\* "-0700" of a zone of a minutes east or west of UTC
FormatZone(sign, a) == sign \o Pad(a \div 60, 2) \o Pad(a % 60, 2)

\* fmt.Sprintf("%s", t) = t.String() up to the numeric zone,
\* "2006-01-02 15:04:05.999999999 -0700" (the zone abbreviation that follows
\* starts at byte 26 or later and is never read by the program); the sign is
\* '-' when the offset in whole minutes is negative
TimeString(t, off) ==
    FormatSeconds(t, off) \o Fraction(t.nsec) \o B(" ")
    \o (IF ZoneMinutes(off) < 0 THEN FormatZone(B("-"), -ZoneMinutes(off))
        ELSE FormatZone(B("+"), ZoneMinutes(off)))

(***************************************************************************)
(* package regexp, package path                                            *)
(*                                                                         *)
(* regexp.Compile parses a pattern with the Perl flags of regexp/syntax.   *)
(* The parser below follows syntax.Parse: a pattern is read rune by rune,  *)
(* and bytes that are not UTF-8 are an error.  It reads literals, '.',     *)
(* '^', '$', groups (capturing, named, non-capturing), flags (?imsU), '|', *)
(* the repetitions '*', '+', '?', {n}, {n,}, {n,m} and their lazy forms,   *)
(* bracket classes with ranges, negation, the named [:classes:], the Perl  *)
(* classes and the Unicode classes \p and \P, the escapes \A \b \B \z      *)
(* \Q..\E, \d \s \w \D \S \W, \a \f \n \r \t \v, octal and \x.             *)
(*                                                                         *)
(* An expression is a record: op "char" with a class, op "empty" with the  *)
(* condition on the place, op "concat" or "alternate" with subs, op        *)
(* "capture" with sub, and op "star", "plus", "quest" or "repeat" with     *)
(* sub, min and max (-1 for no upper bound).  A class is a set of groups   *)
(* and a sign; a group is a set of ranges <<lo, hi, stride>> of runes,     *)
(* taken with the runes that fold to them (fold) or as all other runes     *)
(* (neg).  The parser of the library stores a class as the list of its     *)
(* ranges, folded and negated when it is read; here that is worked out     *)
(* when a rune is matched.  A compiled pattern is matched by the set of    *)
(* places where a match that starts at a given place can end.              *)
(*                                                                         *)
(* The tables are those of Unicode 15.0.0 (Go 1.21 to 1.24); "(?<name>"    *)
(* is read as Go 1.22 and later read it.                                   *)
(***************************************************************************)

SyntaxError == [ok |-> FALSE]

IsAlnum(c) == IsDigit(c) \/ (c >= 65 /\ c <= 90) \/ (c >= 97 /\ c <= 122)

IsWordByte(c) == IsAlnum(c) \/ c = 95

\* the value of a hexadecimal digit, -1 for any other byte
Unhex(c) ==
    IF IsDigit(c) THEN c - 48
    ELSE IF c >= 97 /\ c <= 102 THEN c - 87
    ELSE IF c >= 65 /\ c <= 70 THEN c - 55
    ELSE -1

\* nextRune: the rune at place k of the pattern; bytes that are no UTF-8 are
\* an error
nextRune(p, k) ==
    IF DecodeRune(p, k) = [r |-> RuneError, size |-> 1] THEN SyntaxError
    ELSE [ok |-> TRUE, c |-> DecodeRune(p, k).r, next |-> k + DecodeRune(p, k).size]

minFold == 65
maxFold == 125251

\* unicode.SimpleFold as a set: the runes that are r when case is ignored
\* (r, the rune it folds to, and the runes that fold to that one), where
\* table is CaseFolding; no rune below minFold or above maxFold has another
\* case
Orbit(table, r) ==
    IF r < minFold \/ r > maxFold THEN {r}
    ELSE {To(table, r)}
         \cup {To(table, r) - t[4] : t \in {u \in table : InRange(u, To(table, r) - u[4])}}

\* a group of a class under the flags fl: its ranges, folded under (?i),
\* then negated (appendGroup, appendFoldedRange, appendNegatedClass)
Group(ranges, negated, fl) == [ranges |-> ranges, fold |-> fl.i, neg |-> negated]

\* Inst.MatchRune: the class of the "char" expression re holds the rune r
MatchRune(re, r) ==
    (\E g \in re.class :
        (IF g.fold THEN \E q \in Orbit(CaseFolding, r) : Is(g.ranges, q) ELSE Is(g.ranges, r)) # g.neg)
    # re.negated

\* the Perl classes \d \s \w and their negations \D \S \W
PerlGroup(c, fl) ==
    Group(IF c \in {100, 68} THEN {<<48, 57, 1>>}
          ELSE IF c \in {115, 83} THEN {<<9, 10, 1>>, <<12, 13, 1>>, <<32, 32, 1>>}
          ELSE {<<48, 57, 1>>, <<65, 90, 1>>, <<95, 95, 1>>, <<97, 122, 1>>},
          c \in {68, 83, 87}, fl)

\* the named classes of brackets, [:alnum:] to [:xdigit:]
PosixGroup ==
    (B("alnum") :> {<<48, 57, 1>>, <<65, 90, 1>>, <<97, 122, 1>>})
    @@ (B("alpha") :> {<<65, 90, 1>>, <<97, 122, 1>>})
    @@ (B("ascii") :> {<<0, 127, 1>>})
    @@ (B("blank") :> {<<9, 9, 1>>, <<32, 32, 1>>})
    @@ (B("cntrl") :> {<<0, 31, 1>>, <<127, 127, 1>>})
    @@ (B("digit") :> {<<48, 57, 1>>})
    @@ (B("graph") :> {<<33, 126, 1>>})
    @@ (B("lower") :> {<<97, 122, 1>>})
    @@ (B("print") :> {<<32, 126, 1>>})
    @@ (B("punct") :> {<<33, 47, 1>>, <<58, 64, 1>>, <<91, 96, 1>>, <<123, 126, 1>>})
    @@ (B("space") :> {<<9, 13, 1>>, <<32, 32, 1>>})
    @@ (B("upper") :> {<<65, 90, 1>>})
    @@ (B("word") :> {<<48, 57, 1>>, <<65, 90, 1>>, <<97, 122, 1>>, <<95, 95, 1>>})
    @@ (B("xdigit") :> {<<48, 57, 1>>, <<65, 70, 1>>, <<97, 102, 1>>})

\* unicodeTable: the ranges of the class named name, which is "Any", a
\* general category of one or two letters (of categories, which is
\* Categories), or a script (of scripts, which is Scripts)
unicodeTable(name, categories, scripts) ==
    IF name = <<65, 110, 121>> THEN [ok |-> TRUE, ranges |-> {<<0, MaxRune, 1>>}]
    ELSE IF name \in DOMAIN categories THEN [ok |-> TRUE, ranges |-> categories[name]]
    ELSE IF Len(name) = 1 /\ \E n \in DOMAIN categories : n[1] = name[1]
         THEN [ok |-> TRUE,
               ranges |-> UNION {categories[n] : n \in {m \in DOMAIN categories : m[1] = name[1]}}]
    ELSE IF name \in DOMAIN scripts THEN [ok |-> TRUE, ranges |-> scripts[name]]
    ELSE SyntaxError

\* the group of the table tab, negated when sign says so, and the place next
\* after the class
unicodeGroup(tab, sign, fl, next) ==
    IF ~tab.ok THEN SyntaxError
    ELSE [ok |-> TRUE, group |-> Group(tab.ranges, sign, fl), next |-> next]

\* strings.Index: the first place at or after k where sub occurs in p, 0 when
\* it does not occur
IndexOf(p, k, sub) ==
    IF \E e \in k..(Len(p) - Len(sub) + 1) : SubSeq(p, e, e + Len(sub) - 1) = sub
    THEN CHOOSE e \in k..(Len(p) - Len(sub) + 1) :
             /\ SubSeq(p, e, e + Len(sub) - 1) = sub
             /\ \A d \in k..(e - 1) : SubSeq(p, d, d + Len(sub) - 1) # sub
    ELSE 0

\* parseUnicodeClass: the class \pX, \PX, \p{Name} or \P{Name} whose
\* backslash is at place k; a '^' before the name negates once more
parseUnicodeClass(p, k, fl) ==
    LET c == nextRune(p, k + 2)
        e == IndexOf(p, k, <<125>>)
        name == IF c.c = 123 THEN SubSeq(p, k + 3, e - 1) ELSE SubSeq(p, k + 2, c.next - 1)
        caret == name # <<>> /\ name[1] = 94
    IN  IF ~c.ok THEN SyntaxError
        ELSE IF c.c = 123 /\ e = 0 THEN SyntaxError
        ELSE unicodeGroup(unicodeTable(IF caret THEN Tail(name) ELSE name, Categories, Scripts),
                          (p[k + 1] = 80) # caret, fl, IF c.c = 123 THEN e + 1 ELSE c.next)

\* up to two more octal digits of an escape, i the place of the next digit
RECURSIVE octalDigits(_, _, _, _)
octalDigits(p, k, r, i) ==
    IF i < 3 /\ k <= Len(p) /\ p[k] >= 48 /\ p[k] <= 55
    THEN octalDigits(p, k + 1, r * 8 + p[k] - 48, i + 1)
    ELSE [ok |-> TRUE, c |-> r, next |-> k]

\* the digits of \x{...} up to the closing brace, at most unicode.MaxRune
RECURSIVE hexDigits(_, _, _, _)
hexDigits(p, k, r, nhex) ==
    IF k > Len(p) THEN SyntaxError
    ELSE IF p[k] = 125 THEN (IF nhex = 0 THEN SyntaxError
                             ELSE [ok |-> TRUE, c |-> r, next |-> k + 1])
    ELSE IF Unhex(p[k]) < 0 \/ r * 16 + Unhex(p[k]) > MaxRune THEN SyntaxError
    ELSE hexDigits(p, k + 1, r * 16 + Unhex(p[k]), nhex + 1)

\* parseEscape: the rune of the escape that starts with the backslash at
\* place k: octal, \x, one of \a \f \n \r \t \v, or an ASCII punctuation
\* mark; any other rune after the backslash is an error
parseEscape(p, k) ==
    LET control == (97 :> 7) @@ (102 :> 12) @@ (110 :> 10) @@ (114 :> 13) @@ (116 :> 9)
                   @@ (118 :> 11)
    IN  IF k + 1 > Len(p) THEN SyntaxError
        ELSE IF p[k + 1] >= 49 /\ p[k + 1] <= 55
             THEN (IF k + 2 > Len(p) \/ p[k + 2] < 48 \/ p[k + 2] > 55 THEN SyntaxError
                   ELSE octalDigits(p, k + 2, p[k + 1] - 48, 1))
        ELSE IF p[k + 1] = 48 THEN octalDigits(p, k + 2, 0, 1)
        ELSE IF p[k + 1] = 120
             THEN (IF k + 2 > Len(p) THEN SyntaxError
                   ELSE IF p[k + 2] = 123 THEN hexDigits(p, k + 3, 0, 0)
                   ELSE IF k + 3 > Len(p) \/ Unhex(p[k + 2]) < 0 \/ Unhex(p[k + 3]) < 0
                        THEN SyntaxError
                   ELSE [ok |-> TRUE, c |-> Unhex(p[k + 2]) * 16 + Unhex(p[k + 3]),
                         next |-> k + 4])
        ELSE IF p[k + 1] \in DOMAIN control
             THEN [ok |-> TRUE, c |-> control[p[k + 1]], next |-> k + 2]
        ELSE IF p[k + 1] < 128 /\ ~IsAlnum(p[k + 1])
             THEN [ok |-> TRUE, c |-> p[k + 1], next |-> k + 2]
        ELSE SyntaxError

\* parseClassChar: one character of a bracket class
parseClassChar(p, k) ==
    IF k > Len(p) THEN SyntaxError
    ELSE IF p[k] = 92 THEN parseEscape(p, k)
    ELSE nextRune(p, k)

\* the loop of parseClass: the groups of a bracket class from place k up to
\* its ']', which is a literal when it comes first; a group is a named class
\* "[:name:]" or "[:^name:]", a Unicode class, a Perl class, a character or a
\* range, in this order, and "[a-]" means a or '-'.  The class is negated at
\* its end.
RECURSIVE classItems(_, _, _, _, _, _)
classItems(p, k, first, class, fl, negated) ==
    LET e == IndexOf(p, k + 2, <<58, 93>>)
        name == SubSeq(p, IF p[k + 2] = 94 THEN k + 3 ELSE k + 2, e - 1)
        one(lo, hi) == Group({<<lo, hi, 1>>}, FALSE, fl)
    IN  IF k > Len(p) THEN SyntaxError
        ELSE IF p[k] = 93 /\ ~first
             THEN [ok |-> TRUE, next |-> k + 1,
                   node |-> [op |-> "char", class |-> class, negated |-> negated]]
        ELSE IF k + 2 <= Len(p) /\ p[k] = 91 /\ p[k + 1] = 58 /\ e # 0
             THEN (IF name \notin DOMAIN PosixGroup THEN SyntaxError
                   ELSE classItems(p, e + 2, FALSE,
                                   class \cup {Group(PosixGroup[name], p[k + 2] = 94, fl)},
                                   fl, negated))
        ELSE IF p[k] = 92 /\ k + 1 <= Len(p) /\ p[k + 1] \in {112, 80}
             THEN With(parseUnicodeClass(p, k, fl), LAMBDA u :
                      IF ~u.ok THEN SyntaxError
                      ELSE classItems(p, u.next, FALSE, class \cup {u.group}, fl, negated))
        ELSE IF p[k] = 92 /\ k + 1 <= Len(p) /\ p[k + 1] \in {100, 115, 119, 68, 83, 87}
             THEN classItems(p, k + 2, FALSE, class \cup {PerlGroup(p[k + 1], fl)}, fl, negated)
        ELSE With(parseClassChar(p, k), LAMBDA lo :
                 IF ~lo.ok THEN SyntaxError
                 ELSE IF lo.next + 1 <= Len(p) /\ p[lo.next] = 45 /\ p[lo.next + 1] # 93
                      THEN With(parseClassChar(p, lo.next + 1), LAMBDA hi :
                               IF ~hi.ok THEN SyntaxError
                               ELSE IF hi.c < lo.c THEN SyntaxError
                               ELSE classItems(p, hi.next, FALSE,
                                               class \cup {one(lo.c, hi.c)}, fl, negated))
                 ELSE classItems(p, lo.next, FALSE, class \cup {one(lo.c, lo.c)}, fl,
                                 negated))

\* parseClass: the bracket class that starts with the '[' at place k
parseClass(p, k, fl) ==
    classItems(p, IF k + 1 <= Len(p) /\ p[k + 1] = 94 THEN k + 2 ELSE k + 1, TRUE, {}, fl,
               k + 1 <= Len(p) /\ p[k + 1] = 94)

\* the end of the digits that start at place i of value
RECURSIVE SkipDigits(_, _)
SkipDigits(value, i) ==
    IF i <= Len(value) /\ IsDigit(value[i]) THEN SkipDigits(value, i + 1) ELSE i

\* parseInt: a number without leading zeros at place k; -1 for a number of
\* ten digits or more
parseInt(p, k) ==
    IF k > Len(p) \/ ~IsDigit(p[k]) THEN SyntaxError
    ELSE IF k + 1 <= Len(p) /\ p[k] = 48 /\ IsDigit(p[k + 1]) THEN SyntaxError
    ELSE [ok |-> TRUE, next |-> SkipDigits(p, k),
          n |-> IF SkipDigits(p, k) - k >= 10 THEN -1
                ELSE Atoi(SubSeq(p, k, SkipDigits(p, k) - 1))]

\* a repetition operator that ends before place next
Repeat(op, min, max, next) == [ok |-> TRUE, op |-> op, min |-> min, max |-> max, next |-> next]

\* parseRepeat: {n}, {n,} or {n,m} at place k; a '{' that opens none of
\* them is a literal
parseRepeat(p, k) ==
    LET lo == parseInt(p, k + 1)
        hi == parseInt(p, lo.next + 1)
    IN  IF ~lo.ok THEN SyntaxError
        ELSE IF lo.next > Len(p) THEN SyntaxError
        ELSE IF p[lo.next] = 125 THEN Repeat("repeat", lo.n, lo.n, lo.next + 1)
        ELSE IF p[lo.next] # 44 \/ lo.next + 1 > Len(p) THEN SyntaxError
        ELSE IF p[lo.next + 1] = 125 THEN Repeat("repeat", lo.n, -1, lo.next + 2)
        ELSE IF ~hi.ok THEN SyntaxError
        ELSE IF hi.next > Len(p) THEN SyntaxError
        ELSE IF p[hi.next] # 125 THEN SyntaxError
        ELSE Repeat("repeat", IF hi.n < 0 THEN -1 ELSE lo.n, hi.n, hi.next + 1)

\* the repetition operator at place k, if there is one
RepeatAt(p, k) ==
    IF p[k] = 42 THEN Repeat("star", 0, -1, k + 1)
    ELSE IF p[k] = 43 THEN Repeat("plus", 1, -1, k + 1)
    ELSE IF p[k] = 63 THEN Repeat("quest", 0, 1, k + 1)
    ELSE IF p[k] = 123 THEN parseRepeat(p, k)
    ELSE SyntaxError

\* repeatIsValid: the counts of nested {n,m} multiply to at most n
RECURSIVE repeatIsValid(_, _)
repeatIsValid(re, n) ==
    LET m == IF re.max < 0 THEN re.min ELSE re.max
    IN  IF re.op \in {"char", "empty"} THEN TRUE
        ELSE IF re.op \in {"concat", "alternate"}
             THEN \A i \in DOMAIN re.subs : repeatIsValid(re.subs[i], n)
        ELSE IF re.op # "repeat" THEN repeatIsValid(re.sub, n)
        ELSE IF re.max = 0 THEN TRUE
        ELSE IF m > n THEN FALSE
        ELSE repeatIsValid(re.sub, IF m > 0 THEN n \div m ELSE n)

\* the longest pattern that is parsed, in bytes
MaxPatternLen == 64

\* checkLimits: while it parses, the library gives up with ErrNestingDepth
\* on an expression of more than 1000 levels, and with ErrLarge on more than
\* 33554432 runes in classes or on an expression whose calcSize is above
\* 3355443.  A pattern of at most MaxPatternLen bytes stays below the three
\* limits wherever it is valid otherwise: it makes fewer than 1000
\* expressions, so none has 1000 levels; it names at most MaxPatternLen / 3
\* Unicode tables, of fewer than 100000 runes each; and calcSize is at most the
\* count of the runes and expressions times the product of the counts of the
\* repetitions around them, which repeatIsValid keeps at 1000 or below (a
\* repetition it refuses is an error with or without ErrLarge).  So
\* checkLimits decides nothing for such a pattern; it has no definition here,
\* and BoundedPattern keeps longer patterns out: it has no value for them.
BoundedPattern(p) == CHOOSE q \in {p} : Len(q) <= MaxPatternLen

\* parsePerlFlags: the flags of "(?flags)" or "(?flags:" from place k on, of
\* which (?U) does not change what matches; group is TRUE when a ':' opens a
\* group
RECURSIVE parsePerlFlags(_, _, _, _, _)
parsePerlFlags(p, k, fl, negated, sawFlag) ==
    IF k > Len(p) THEN SyntaxError
    ELSE IF p[k] = 105
         THEN parsePerlFlags(p, k + 1, [fl EXCEPT !.i = ~negated], negated, TRUE)
    ELSE IF p[k] = 109
         THEN parsePerlFlags(p, k + 1, [fl EXCEPT !.m = ~negated], negated, TRUE)
    ELSE IF p[k] = 115
         THEN parsePerlFlags(p, k + 1, [fl EXCEPT !.s = ~negated], negated, TRUE)
    ELSE IF p[k] = 85 THEN parsePerlFlags(p, k + 1, fl, negated, TRUE)
    ELSE IF p[k] = 45
         THEN (IF negated THEN SyntaxError ELSE parsePerlFlags(p, k + 1, fl, TRUE, FALSE))
    ELSE IF p[k] \in {58, 41}
         THEN (IF negated /\ ~sawFlag THEN SyntaxError
               ELSE [ok |-> TRUE, fl |-> fl, next |-> k + 1, group |-> p[k] = 58])
    ELSE SyntaxError

\* what the '(' at place k opens: a capturing group, a group named by
\* "(?P<name>" or "(?<name>" with a name of word characters (a name may be
\* used more than once), a group "(?flags:" or the flags "(?flags)" alone
groupStart(p, k, fl) ==
    LET e == IndexOf(p, k, <<62>>)
        name == SubSeq(p, IF p[k + 2] = 80 THEN k + 4 ELSE k + 3, e - 1)
        f == parsePerlFlags(p, k + 2, fl, FALSE, FALSE)
    IN  IF k + 1 > Len(p) \/ p[k + 1] # 63
        THEN [ok |-> TRUE, flagsOnly |-> FALSE, capture |-> TRUE, fl |-> fl, next |-> k + 1]
        ELSE IF \/ k + 4 <= Len(p) /\ p[k + 2] = 80 /\ p[k + 3] = 60
                \/ k + 3 <= Len(p) /\ p[k + 2] = 60
             THEN (IF e = 0 THEN SyntaxError
                   ELSE IF name = <<>> \/ \E n \in DOMAIN name : ~IsWordByte(name[n])
                        THEN SyntaxError
                   ELSE [ok |-> TRUE, flagsOnly |-> FALSE, capture |-> TRUE, fl |-> fl,
                         next |-> e + 1])
        ELSE IF ~f.ok THEN SyntaxError
        ELSE [ok |-> TRUE, flagsOnly |-> ~f.group, capture |-> FALSE, fl |-> f.fl,
              next |-> f.next]

\* the expression of the character, class or escape at place k
parseAtom(p, k, fl) ==
    LET Char(class, negated, next) ==
            [ok |-> TRUE, node |-> [op |-> "char", class |-> class, negated |-> negated],
             next |-> next]
        Empty(at, next) == [ok |-> TRUE, node |-> [op |-> "empty", at |-> at], next |-> next]
        Literal(c) ==
            IF ~c.ok THEN SyntaxError
            ELSE Char({Group({<<c.c, c.c, 1>>}, FALSE, fl)}, FALSE, c.next)
        Class(u) == IF ~u.ok THEN SyntaxError ELSE Char({u.group}, FALSE, u.next)
    IN  IF p[k] = 91 THEN parseClass(p, k, fl)
        ELSE IF p[k] = 46
             THEN (IF fl.s THEN Char({[ranges |-> {<<0, MaxRune, 1>>}, fold |-> FALSE,
                                       neg |-> FALSE]}, FALSE, k + 1)
                   ELSE Char({[ranges |-> {<<10, 10, 1>>}, fold |-> FALSE, neg |-> FALSE]},
                             TRUE, k + 1))
        ELSE IF p[k] = 94 THEN Empty(IF fl.m THEN "beginLine" ELSE "beginText", k + 1)
        ELSE IF p[k] = 36 THEN Empty(IF fl.m THEN "endLine" ELSE "endText", k + 1)
        ELSE IF p[k] # 92 THEN Literal(nextRune(p, k))
        ELSE IF k + 1 > Len(p) THEN SyntaxError
        ELSE IF p[k + 1] = 65 THEN Empty("beginText", k + 2)
        ELSE IF p[k + 1] = 98 THEN Empty("wordBoundary", k + 2)
        ELSE IF p[k + 1] = 66 THEN Empty("noWordBoundary", k + 2)
        ELSE IF p[k + 1] = 122 THEN Empty("endText", k + 2)
        ELSE IF p[k + 1] \in {112, 80}
             THEN Class(parseUnicodeClass(p, k, fl))
        ELSE IF p[k + 1] \in {100, 115, 119, 68, 83, 87}
             THEN Char({PerlGroup(p[k + 1], fl)}, FALSE, k + 2)
        ELSE Literal(parseEscape(p, k))

\* the loop of syntax.Parse.  parseConcat reads the items of one alternative
\* from place k up to a '|', a ')' or the end: subs are the expressions read
\* so far, lastRepeat tells that a repetition operator came just before and
\* depth counts the groups that are open.  A ')' that no '(' opened and a
\* '(' that no ')' closes are errors; \Q starts literals that run up to \E.
RECURSIVE parseConcat(_, _, _, _, _, _)
RECURSIVE parseAlternate(_, _, _)
RECURSIVE repeat(_, _, _, _, _, _)
RECURSIVE groupClosed(_, _, _, _, _, _)
RECURSIVE push(_, _, _, _, _)
RECURSIVE quoted(_, _, _, _, _, _)
parseConcat(p, k, subs, fl, lastRepeat, depth) ==
    LET done == [ok |-> TRUE, node |-> [op |-> "concat", subs |-> subs], next |-> k,
                 fl |-> fl, depth |-> depth]
        e == IF IndexOf(p, k + 2, <<92, 69>>) = 0 THEN Len(p) + 1
             ELSE IndexOf(p, k + 2, <<92, 69>>)
    IN  IF k > Len(p) THEN (IF depth > 0 THEN SyntaxError ELSE done)
        ELSE IF p[k] = 124 THEN done
        ELSE IF p[k] = 41 THEN (IF depth = 0 THEN SyntaxError ELSE done)
        ELSE IF RepeatAt(p, k).ok
             THEN With(RepeatAt(p, k), LAMBDA r : repeat(p, subs, fl, lastRepeat, depth, r))
        ELSE IF p[k] = 40
             THEN With(groupStart(p, k, fl), LAMBDA g :
                      IF ~g.ok THEN SyntaxError
                      ELSE IF g.flagsOnly
                           THEN parseConcat(p, g.next, subs, g.fl, FALSE, depth)
                      ELSE With(parseConcat(p, g.next, <<>>, g.fl, FALSE, depth + 1),
                                LAMBDA c :
                                    With(parseAlternate(p, <<>>, c), LAMBDA inner :
                                        groupClosed(p, subs, fl, depth, g.capture, inner))))
        ELSE IF p[k] = 92 /\ k + 1 <= Len(p) /\ p[k + 1] = 81
             THEN quoted(p, k + 2, e, subs, fl, depth)
        ELSE With(parseAtom(p, k, fl), LAMBDA a : push(p, subs, fl, depth, a))

\* the alternatives after the alternative c; the flags carry over a '|'
parseAlternate(p, subs, c) ==
    IF ~c.ok THEN SyntaxError
    ELSE IF c.next <= Len(p) /\ p[c.next] = 124
         THEN With(parseConcat(p, c.next + 1, <<>>, c.fl, FALSE, c.depth), LAMBDA d :
                  parseAlternate(p, Append(subs, c.node), d))
    ELSE [ok |-> TRUE, node |-> [op |-> "alternate", subs |-> Append(subs, c.node)],
          next |-> c.next, fl |-> c.fl, depth |-> c.depth]

\* the method repeat: the repetition operator r applies to the last
\* expression and may be followed by a '?'; it is an error after another
\* one, first in an alternative, with bounds outside 0..1000 or out of order,
\* and when repeatIsValid fails
repeat(p, subs, fl, lastRepeat, depth, r) ==
    IF r.min < 0 \/ r.min > 1000 \/ r.max > 1000 \/ (r.max >= 0 /\ r.min > r.max)
    THEN SyntaxError
    ELSE IF lastRepeat \/ subs = <<>> THEN SyntaxError
    ELSE With([op |-> r.op, sub |-> subs[Len(subs)], min |-> r.min, max |-> r.max],
              LAMBDA re :
                  IF r.op = "repeat" /\ (r.min >= 2 \/ r.max >= 2) /\ ~repeatIsValid(re, 1000)
                  THEN SyntaxError
                  ELSE parseConcat(p,
                                   IF r.next <= Len(p) /\ p[r.next] = 63 THEN r.next + 1
                                   ELSE r.next,
                                   Append(SubSeq(subs, 1, Len(subs) - 1), re), fl, TRUE, depth))

\* parseRightParen: the group whose content is inner ends with the ')' at
\* place inner.next, where the flags of before the group are restored; a
\* group that captures is an expression of its own
groupClosed(p, subs, fl, depth, capture, inner) ==
    IF ~inner.ok THEN SyntaxError
    ELSE push(p, subs, fl, depth,
              [ok |-> TRUE, next |-> inner.next + 1,
               node |-> IF capture THEN [op |-> "capture", sub |-> inner.node]
                        ELSE inner.node])

\* the method push: the expression of a is added to those of the
\* alternative
push(p, subs, fl, depth, a) ==
    IF ~a.ok THEN SyntaxError
    ELSE parseConcat(p, a.next, Append(subs, a.node), fl, FALSE, depth)

\* the runes from place k up to place e - 1, where \E or the pattern ends,
\* are literals
quoted(p, k, e, subs, fl, depth) ==
    IF k >= e THEN parseConcat(p, IF e > Len(p) THEN e ELSE e + 2, subs, fl, FALSE, depth)
    ELSE With(nextRune(p, k), LAMBDA c :
             IF ~c.ok THEN SyntaxError
             ELSE quoted(p, c.next, e,
                         Append(subs, [op |-> "char", negated |-> FALSE,
                                       class |-> {Group({<<c.c, c.c, 1>>}, FALSE, fl)}]),
                         fl, depth))

\* syntax.Parse(p, syntax.Perl), for a pattern of at most MaxPatternLen bytes
Parse(p) ==
    With(BoundedPattern(p), LAMBDA q :
        With(parseConcat(q, 1, <<>>, [i |-> FALSE, m |-> FALSE, s |-> FALSE], FALSE, 0),
             LAMBDA c : parseAlternate(q, <<>>, c)))

\* regexp.Compile(p) returns a nil error
RegexpCompileOK(p) == Parse(p).ok

\* the empty-width condition at holds at place i of s
EmptyHolds(at, s, i) ==
    LET IsWordAt(j) == j >= 1 /\ j <= Len(s) /\ IsWordByte(s[j])
    IN  IF at = "beginText" THEN i = 1
        ELSE IF at = "endText" THEN i = Len(s) + 1
        ELSE IF at = "beginLine" THEN i = 1 \/ s[i - 1] = 10
        ELSE IF at = "endLine" THEN i = Len(s) + 1 \/ s[i] = 10
        ELSE IF at = "wordBoundary" THEN IsWordAt(i - 1) # IsWordAt(i)
        ELSE IsWordAt(i - 1) = IsWordAt(i)

\* the places where a match of re that starts at place i of s can end; a
\* "char" takes the rune at place i, which is RuneError for a byte that is
\* no UTF-8.  A repetition without upper bound adds at most len(s) + 1 times
\* its expression, as a match has len(s) + 1 places to end.
RECURSIVE Ends(_, _, _)
RECURSIVE EndsFrom(_, _, _)
RECURSIVE ConcatEnds(_, _, _, _)
RECURSIVE Times(_, _, _, _)
RECURSIVE UpTo(_, _, _, _)
Ends(re, s, i) ==
    IF re.op = "char"
    THEN (IF i <= Len(s) /\ MatchRune(re, DecodeRune(s, i).r) THEN {i + DecodeRune(s, i).size}
          ELSE {})
    ELSE IF re.op = "empty" THEN (IF EmptyHolds(re.at, s, i) THEN {i} ELSE {})
    ELSE IF re.op = "alternate" THEN UNION {Ends(re.subs[n], s, i) : n \in DOMAIN re.subs}
    ELSE IF re.op = "concat" THEN ConcatEnds(re.subs, 1, s, {i})
    ELSE IF re.op = "capture" THEN Ends(re.sub, s, i)
    ELSE With(Times(re.sub, re.min, s, {i}), LAMBDA from :
             UpTo(re.sub, IF re.max < 0 THEN Len(s) + 1 ELSE re.max - re.min, s, from))

\* the ends of the matches that start at one of the places of from
EndsFrom(re, s, from) == UNION {Ends(re, s, i) : i \in from}

\* subs[n], subs[n + 1], ... one after the other
ConcatEnds(subs, n, s, from) ==
    IF n > Len(subs) \/ from = {} THEN from
    ELSE With(EndsFrom(subs[n], s, from), LAMBDA next : ConcatEnds(subs, n + 1, s, next))

\* n times re, one after the other
Times(re, n, s, from) ==
    IF n = 0 \/ from = {} THEN from
    ELSE With(EndsFrom(re, s, from), LAMBDA next : Times(re, n - 1, s, next))

\* at most n times re
UpTo(re, n, s, from) ==
    IF n = 0 \/ from = {} THEN from
    ELSE With(EndsFrom(re, s, from), LAMBDA next : from \cup UpTo(re, n - 1, s, next))

\* the places where an unanchored search starts a match: the end of s and
\* the places where a rune starts when s is read rune by rune, which are the
\* places that no rune of the three places before reaches
Starts(s) ==
    {i \in 1..(Len(s) + 1) : \A j \in 1..3 : i - j < 1 \/ DecodeRune(s, i - j).size <= j}

\* re.Match([]byte(s)) for a compiled pattern p: an unanchored search
RegexpMatch(p, s) == \E re \in {Parse(p)} : EndsFrom(re.node, s, Starts(s)) # {}

\* s without its trailing slashes
RECURSIVE StripSlashes(_)
StripSlashes(s) ==
    IF s # <<>> /\ s[Len(s)] = Ord("/") THEN StripSlashes(SubSeq(s, 1, Len(s) - 1)) ELSE s

\* the place of the last slash of t, 0 when it has none
LastSlash(t) ==
    IF \E i \in 1..Len(t) : t[i] = Ord("/")
    THEN CHOOSE i \in 1..Len(t) : t[i] = Ord("/") /\ \A j \in (i + 1)..Len(t) : t[j] # Ord("/")
    ELSE 0

\* what follows the last slash of t
AfterLastSlash(t) == SubSeq(t, LastSlash(t) + 1, Len(t))

\* path.Base(name)
PathBase(name) ==
    IF name = <<>> THEN B(".")
    ELSE IF StripSlashes(name) = <<>> THEN B("/")
    ELSE AfterLastSlash(StripSlashes(name))

(***************************************************************************)
(* fstat.go: constants and the stat collaborator                           *)
(***************************************************************************)

minTermWidth == 49
wantOlder == 0
wantNewer == 1

\* FileStat{FullName, Size, ModTime, FileType}
FileStat(fullName, size, modTime, fileType) ==
    [FullName |-> fullName, Size |-> size, ModTime |-> modTime, FileType |-> fileType]

\* os.Lstat(fname) on the file system fsys: an error for a name that does not
\* exist, else [size, modTime, mode], mode one of regular, dir, symlink, other
Lstat(fsys, fname) ==
    IF fname \in DOMAIN fsys THEN [err |-> FALSE] @@ fsys[fname] ELSE [err |-> TRUE]

\* the type letter GetFileInfo derives from f.Mode()
FileTypeOf(mode) ==
    IF mode = "regular" THEN "F"
    ELSE IF mode = "dir" THEN "D"
    ELSE IF mode = "symlink" THEN "L"
    ELSE "?"

(***************************************************************************)
(* roundToLocalTime                                                        *)
(***************************************************************************)

\* lines 615-622: the end of the civil day c in the zone at offset loc, a day
\* later for wantOlder
RoundedTime(olderOrNewer, c, loc) ==
    IF olderOrNewer = wantOlder
    THEN AddSeconds(TimeDate(c.year, c.month, c.day, 23, 59, 59, 999999999, loc), 24 * 3600)
    ELSE TimeDate(c.year, c.month, c.day, 23, 59, 59, 999999999, loc)

\* lines 606-623, on the result of time.Parse
RoundParsed(olderOrNewer, parsed, loc) ==
    IF ~parsed.ok THEN [ok |-> FALSE]
    ELSE [ok |-> TRUE, t |-> RoundedTime(olderOrNewer, Civil(parsed.t, loc), loc)]

\* roundToLocalTime(olderOrNewer, modTime) with time.Local at offset loc:
\* [ok |-> FALSE] where the code exits with 5
roundToLocalTime(olderOrNewer, modTime, loc) ==
    RoundParsed(olderOrNewer, ParseDate(modTime), loc)

(***************************************************************************)
(* GetFileInfo                                                             *)
(***************************************************************************)

\* line 695: the path is rejected by -ed
DotExcluded(excludeDot, fname) ==
    excludeDot /\ (B(".") = Prefix(PathBase(fname), 1) \/ Contains(fname, B("/.")))

\* line 700: the path is rejected by -er
ExcludeMatched(excludeRE, fname) == Len(excludeRE) > 0 /\ RegexpMatch(excludeRE, fname)

\* line 703 without its negation
IncludeMissedInverted(includeRE, fname) == Len(includeRE) > 0 /\ RegexpMatch(includeRE, fname)

\* line 703: the path is rejected by -ir
IncludeMissed(includeRE, fname) == Len(includeRE) > 0 /\ ~RegexpMatch(includeRE, fname)

\* lines 716-721: the stat result f is rejected by -do or -dn
DateRejected(f, dateNewer, dateOlder, loc) ==
    \/ Len(dateOlder) > 0 /\ After(f.modTime, roundToLocalTime(wantOlder, dateOlder, loc).t)
    \/ Len(dateNewer) > 0 /\ Before(f.modTime, roundToLocalTime(wantNewer, dateNewer, loc).t)

\* lines 732-739 without the test of the file type
SizeRejectedAnyType(f, sizeSmaller, sizeLarger) ==
    \/ sizeSmaller > 0 /\ f.size > sizeSmaller
    \/ sizeLarger > 0 /\ f.size < sizeLarger

\* lines 732-739 with bounds that are exclusive
SizeRejectedAtBound(f, sizeSmaller, sizeLarger) ==
    \/ sizeSmaller > 0 /\ f.size >= sizeSmaller /\ "F" = FileTypeOf(f.mode)
    \/ sizeLarger > 0 /\ f.size <= sizeLarger /\ "F" = FileTypeOf(f.mode)

\* lines 732-739: the stat result f is rejected by -szs or -szl
SizeRejected(f, sizeSmaller, sizeLarger) ==
    \/ sizeSmaller > 0 /\ f.size > sizeSmaller /\ "F" = FileTypeOf(f.mode)
    \/ sizeLarger > 0 /\ f.size < sizeLarger /\ "F" = FileTypeOf(f.mode)

\* lines 707-743 with the error of os.Lstat reported under -q too
ExamineStatLoud(f, loc, fname, quiet, dateNewer, dateOlder, sizeSmaller, sizeLarger) ==
    IF f.err THEN [stat |-> TRUE, errLine |-> TRUE, keep |-> FALSE]
    ELSE IF DateRejected(f, dateNewer, dateOlder, loc)
         THEN [stat |-> TRUE, errLine |-> FALSE, keep |-> FALSE]
    ELSE IF SizeRejected(f, sizeSmaller, sizeLarger)
         THEN [stat |-> TRUE, errLine |-> FALSE, keep |-> FALSE]
    ELSE [stat |-> TRUE, errLine |-> FALSE, keep |-> TRUE,
          entry |-> FileStat(fname, f.size, f.modTime, FileTypeOf(f.mode))]

\* lines 707-743 with the continue of line 712 inside the test of quiet: under
\* -q the path that os.Lstat failed on goes on to be an entry
ExamineStatQuietKeeps(f, loc, fname, quiet, dateNewer, dateOlder, sizeSmaller, sizeLarger) ==
    IF f.err /\ quiet
    THEN [stat |-> TRUE, errLine |-> FALSE, keep |-> TRUE,
          entry |-> FileStat(fname, 0, [sec |-> 0, nsec |-> 0], "?")]
    ELSE IF f.err THEN [stat |-> TRUE, errLine |-> TRUE, keep |-> FALSE]
    ELSE IF DateRejected(f, dateNewer, dateOlder, loc)
         THEN [stat |-> TRUE, errLine |-> FALSE, keep |-> FALSE]
    ELSE IF SizeRejected(f, sizeSmaller, sizeLarger)
         THEN [stat |-> TRUE, errLine |-> FALSE, keep |-> FALSE]
    ELSE [stat |-> TRUE, errLine |-> FALSE, keep |-> TRUE,
          entry |-> FileStat(fname, f.size, f.modTime, FileTypeOf(f.mode))]

\* lines 707-743: the path has passed the name filters, f is what os.Lstat
\* returned for it
ExamineStat(f, loc, fname, quiet, dateNewer, dateOlder, sizeSmaller, sizeLarger) ==
    IF f.err THEN [stat |-> TRUE, errLine |-> ~quiet, keep |-> FALSE]
    ELSE IF DateRejected(f, dateNewer, dateOlder, loc)
         THEN [stat |-> TRUE, errLine |-> FALSE, keep |-> FALSE]
    ELSE IF SizeRejected(f, sizeSmaller, sizeLarger)
         THEN [stat |-> TRUE, errLine |-> FALSE, keep |-> FALSE]
    ELSE [stat |-> TRUE, errLine |-> FALSE, keep |-> TRUE,
          entry |-> FileStat(fname, f.size, f.modTime, FileTypeOf(f.mode))]

\* the iteration with a match of the include regex keeping the path whatever
\* the exclude regex says
ExaminePathIncludeWins(fsys, loc, fname, quiet, excludeDot, excludeRE, includeRE, dateNewer, dateOlder, sizeSmaller, sizeLarger) ==
    IF DotExcluded(excludeDot, fname) THEN [stat |-> FALSE, errLine |-> FALSE, keep |-> FALSE]
    ELSE IF Len(includeRE) > 0 /\ RegexpMatch(includeRE, fname)
         THEN ExamineStat(Lstat(fsys, fname), loc, fname, quiet, dateNewer, dateOlder,
                          sizeSmaller, sizeLarger)
    ELSE IF ExcludeMatched(excludeRE, fname)
         THEN [stat |-> FALSE, errLine |-> FALSE, keep |-> FALSE]
    ELSE IF IncludeMissed(includeRE, fname)
         THEN [stat |-> FALSE, errLine |-> FALSE, keep |-> FALSE]
    ELSE ExamineStat(Lstat(fsys, fname), loc, fname, quiet, dateNewer, dateOlder,
                     sizeSmaller, sizeLarger)

\* the iteration with os.Lstat called before the filters on the name
ExaminePathStatFirst(fsys, loc, fname, quiet, excludeDot, excludeRE, includeRE, dateNewer, dateOlder, sizeSmaller, sizeLarger) ==
    IF Lstat(fsys, fname).err THEN [stat |-> TRUE, errLine |-> ~quiet, keep |-> FALSE]
    ELSE IF DotExcluded(excludeDot, fname) \/ ExcludeMatched(excludeRE, fname)
            \/ IncludeMissed(includeRE, fname)
         THEN [stat |-> TRUE, errLine |-> FALSE, keep |-> FALSE]
    ELSE ExamineStat(Lstat(fsys, fname), loc, fname, quiet, dateNewer, dateOlder,
                     sizeSmaller, sizeLarger)

\* one iteration of the loop of GetFileInfo (lines 693-743) on path fname:
\* whether os.Lstat was called, whether an error line was written, and the
\* entry appended, if any
ExaminePath(fsys, loc, fname, quiet, excludeDot, excludeRE, includeRE, dateNewer, dateOlder, sizeSmaller, sizeLarger) ==
    IF DotExcluded(excludeDot, fname) THEN [stat |-> FALSE, errLine |-> FALSE, keep |-> FALSE]
    ELSE IF ExcludeMatched(excludeRE, fname)
         THEN [stat |-> FALSE, errLine |-> FALSE, keep |-> FALSE]
    ELSE IF IncludeMissed(includeRE, fname)
         THEN [stat |-> FALSE, errLine |-> FALSE, keep |-> FALSE]
    ELSE ExamineStat(Lstat(fsys, fname), loc, fname, quiet, dateNewer, dateOlder,
                     sizeSmaller, sizeLarger)

\* lines 660-689 with the include regex compiled without a test of the error
GetFileInfoSetupIncludeUnchecked(excludeRE, includeRE, dateNewer, dateOlder, loc) ==
    IF Len(excludeRE) > 0 /\ ~RegexpCompileOK(excludeRE) THEN 3
    ELSE IF Len(dateNewer) > 0 /\ ~roundToLocalTime(wantNewer, dateNewer, loc).ok THEN 5
    ELSE IF Len(dateOlder) > 0 /\ ~roundToLocalTime(wantOlder, dateOlder, loc).ok THEN 5
    ELSE 0

\* lines 660-689 of GetFileInfo: the exit code of the set-up, 0 when the loop
\* is entered
GetFileInfoSetup(excludeRE, includeRE, dateNewer, dateOlder, loc) ==
    IF Len(excludeRE) > 0 /\ ~RegexpCompileOK(excludeRE) THEN 3
    ELSE IF Len(includeRE) > 0 /\ ~RegexpCompileOK(includeRE) THEN 4
    ELSE IF Len(dateNewer) > 0 /\ ~roundToLocalTime(wantNewer, dateNewer, loc).ok THEN 5
    ELSE IF Len(dateOlder) > 0 /\ ~roundToLocalTime(wantOlder, dateOlder, loc).ok THEN 5
    ELSE 0

(***************************************************************************)
(* The sort functions.  sort.Slice on a slice of at most 12 elements is    *)
(* the insertion sort of package sort (insertionSortLessFunc), which is    *)
(* what runs on every slice within the bounds of this model.               *)
(***************************************************************************)

\* the less function of sortSize with the names compared in the direction of
\* the sort
sortSizeLessReversingTies(x, y, ascending) ==
    IF x.Size > y.Size THEN ~ascending
    ELSE IF x.Size < y.Size THEN ascending
    ELSE IF ascending THEN StrLess(x.FullName, y.FullName)
    ELSE StrLess(y.FullName, x.FullName)

\* the less function of sortSize
sortSizeLess(x, y, ascending) ==
    IF x.Size > y.Size THEN ~ascending
    ELSE IF x.Size < y.Size THEN ascending
    ELSE StrLess(x.FullName, y.FullName)

\* the less function of sortModTime without its last line: equal times are
\* never less
sortModTimeLessWithoutTieBreak(x, y, ascending) ==
    IF After(x.ModTime, y.ModTime) THEN ~ascending
    ELSE IF Before(x.ModTime, y.ModTime) THEN ascending
    ELSE FALSE

\* the less function of sortModTime on the times cut to whole seconds
sortModTimeLessOnSeconds(x, y, ascending) ==
    IF x.ModTime.sec > y.ModTime.sec THEN ~ascending
    ELSE IF x.ModTime.sec < y.ModTime.sec THEN ascending
    ELSE StrLess(x.FullName, y.FullName)

\* the less function of sortModTime
sortModTimeLess(x, y, ascending) ==
    IF After(x.ModTime, y.ModTime) THEN ~ascending
    ELSE IF Before(x.ModTime, y.ModTime) THEN ascending
    ELSE StrLess(x.FullName, y.FullName)

\* the less function of sortName
sortNameLess(x, y, ascending) ==
    IF ascending THEN StrLess(x.FullName, y.FullName) ELSE StrLess(y.FullName, x.FullName)

\* the less function of sortNameCaseInsensitive
sortNameCaseInsensitiveLess(x, y, ascending) ==
    IF ascending THEN StrLess(ToLower(x.FullName), ToLower(y.FullName))
    ELSE StrLess(ToLower(y.FullName), ToLower(x.FullName))

\* the closure handed to sort.Slice by the sort function named key
Less(key, x, y, ascending) ==
    IF key = "sortSize" THEN sortSizeLess(x, y, ascending)
    ELSE IF key = "sortModTime" THEN sortModTimeLess(x, y, ascending)
    ELSE IF key = "sortName" THEN sortNameLess(x, y, ascending)
    ELSE sortNameCaseInsensitiveLess(x, y, ascending)

Swap(s, i, j) == [s EXCEPT ![i] = s[j], ![j] = s[i]]

\* the inner loop: for j := i; j > a && less(data[j], data[j-1]); j--
RECURSIVE SinkDown(_, _, _, _)
SinkDown(s, j, key, ascending) ==
    IF j > 1 /\ Less(key, s[j], s[j - 1], ascending)
    THEN SinkDown(Swap(s, j, j - 1), j - 1, key, ascending)
    ELSE s

\* the outer loop: for i := a + 1; i < b; i++
RECURSIVE InsertionSortFrom(_, _, _, _)
InsertionSortFrom(s, i, key, ascending) ==
    IF i > Len(s) THEN s
    ELSE InsertionSortFrom(SinkDown(s, i, key, ascending), i + 1, key, ascending)

\* sort.Slice(entry, less)
SortSlice(s, key, ascending) == InsertionSortFrom(s, 2, key, ascending)

sortSize(entry, ascending) == SortSlice(entry, "sortSize", ascending)

sortModTime(entry, ascending) == SortSlice(entry, "sortModTime", ascending)

sortName(entry, ascending) == SortSlice(entry, "sortName", ascending)

sortNameCaseInsensitive(entry, ascending) == SortSlice(entry, "sortNameCaseInsensitive", ascending)

\* SortAllEntries sorting by name when no sort flag is set
SortAllEntriesByDefault(entries, argsSortSize, argsSortSizeDesc, argsSortModTime, argsSortModTimeDesc, argsSortName, argsSortNameDesc, argsSortNameCaseInsen, argsSortNameCaseInsenDesc) ==
    IF argsSortSize THEN sortSize(entries, TRUE)
    ELSE IF argsSortSizeDesc THEN sortSize(entries, FALSE)
    ELSE IF argsSortModTime THEN sortModTime(entries, TRUE)
    ELSE IF argsSortModTimeDesc THEN sortModTime(entries, FALSE)
    ELSE IF argsSortNameDesc THEN sortName(entries, FALSE)
    ELSE IF argsSortNameCaseInsen THEN sortNameCaseInsensitive(entries, TRUE)
    ELSE IF argsSortNameCaseInsenDesc THEN sortNameCaseInsensitive(entries, FALSE)
    ELSE sortName(entries, TRUE)

\* SortAllEntries: the first sort flag that is set decides
SortAllEntries(entries, argsSortSize, argsSortSizeDesc, argsSortModTime, argsSortModTimeDesc, argsSortName, argsSortNameDesc, argsSortNameCaseInsen, argsSortNameCaseInsenDesc) ==
    IF argsSortSize THEN sortSize(entries, TRUE)
    ELSE IF argsSortSizeDesc THEN sortSize(entries, FALSE)
    ELSE IF argsSortModTime THEN sortModTime(entries, TRUE)
    ELSE IF argsSortModTimeDesc THEN sortModTime(entries, FALSE)
    ELSE IF argsSortName THEN sortName(entries, TRUE)
    ELSE IF argsSortNameDesc THEN sortName(entries, FALSE)
    ELSE IF argsSortNameCaseInsen THEN sortNameCaseInsensitive(entries, TRUE)
    ELSE IF argsSortNameCaseInsenDesc THEN sortNameCaseInsensitive(entries, FALSE)
    ELSE entries

(***************************************************************************)
(* ValidateArgs                                                            *)
(***************************************************************************)

CountTrue(flags) == Cardinality({i \in 1..Len(flags) : flags[i]})

\* the exit code of each fatal exit of the program, by the place that exits
FatalCode(exit) ==
    CASE exit = "version"          -> 1   \* main, line 1150
      [] exit = "sortConflict"     -> 2   \* ValidateArgs, line 972
      [] exit = "onlyConflict"     -> 2   \* line 988
      [] exit = "outputConflict"   -> 2   \* line 1004
      [] exit = "totalsStructured" -> 2   \* line 1009
      [] exit = "dateParse"        -> 2   \* lines 1020, 1025
      [] exit = "dateRange"        -> 2   \* line 1030
      [] exit = "sizeRange"        -> 2   \* line 1037
      [] exit = "longConflict"     -> 2   \* line 1043
      [] exit = "globNoMatch"      -> 3   \* main, line 1194
      [] exit = "openFailed"       -> 1   \* main, line 1211
      [] exit = "emptyList"        -> 3   \* main, line 1219
      [] exit = "excludeRegex"     -> 3   \* GetFileInfo, line 664
      [] exit = "includeRegex"     -> 4   \* GetFileInfo, line 673
      [] exit = "invalidDate"      -> 5   \* roundToLocalTime, line 609
      [] exit = "jsonTime"         -> 1   \* RenderAllEntries, line 901

\* ValidateArgs with its parameters in the order of line 943: the fatal exit it
\* takes, "" when it returns
ValidateArgs(argsSortSize, argsSortSizeDesc, argsSortModTime, argsSortModTimeDesc, argsSortName, argsSortNameDesc, argsSortNameCaseInsen, argsSortNameCaseInsenDesc, argsOnlyFiles, argsOnlyDirs, argsOnlyLinks, argsTotals, argsOutputCSV, argsOutputHTML, argsOutputJSON, dateOlder, dateNewer, sizeSmaller, sizeLarger, longFileNames, longWidth) ==
    LET older == ParseDate(dateOlder)
        newer == ParseDate(dateNewer)
    IN  IF CountTrue(<<argsSortSize, argsSortSizeDesc, argsSortModTime, argsSortModTimeDesc,
                       argsSortName, argsSortNameDesc, argsSortNameCaseInsen,
                       argsSortNameCaseInsenDesc>>) > 1 THEN "sortConflict"
        ELSE IF CountTrue(<<argsOnlyFiles, argsOnlyDirs, argsOnlyLinks>>) > 1 THEN "onlyConflict"
        ELSE IF CountTrue(<<argsOutputCSV, argsOutputHTML, argsOutputJSON>>) > 1
             THEN "outputConflict"
        ELSE IF argsTotals /\ (argsOutputCSV \/ argsOutputHTML \/ argsOutputJSON)
             THEN "totalsStructured"
        ELSE IF Len(dateOlder) > 0 /\ Len(dateNewer) > 0 /\ ~older.ok THEN "dateParse"
        ELSE IF Len(dateOlder) > 0 /\ Len(dateNewer) > 0 /\ ~newer.ok THEN "dateParse"
        ELSE IF Len(dateOlder) > 0 /\ Len(dateNewer) > 0 /\ After(older.t, newer.t)
             THEN "dateRange"
        ELSE IF sizeSmaller > 0 /\ sizeSmaller < sizeLarger THEN "sizeRange"
        ELSE IF longFileNames = TRUE /\ longWidth > 0 THEN "longConflict"
        ELSE ""

\* the call of line 1153 with the two dates in the order of the parameters
MainValidateArgsDatesInOrder(c) ==
    ValidateArgs(c.argsSortSize, c.argsSortSizeDesc, c.argsSortModTime, c.argsSortModTimeDesc,
                 c.argsSortName, c.argsSortNameDesc, c.argsSortNameCaseInsen,
                 c.argsSortNameCaseInsenDesc, c.argsOnlyFiles, c.argsOnlyDirs, c.argsOnlyLinks,
                 c.argsTotals, c.argsOutputCSV, c.argsOutputHTML, c.argsOutputJSON,
                 c.argsDateOlder, c.argsDateNewer, c.argsSizeSmaller, c.argsSizeLarger,
                 c.argsLongFileNames, c.argsLongWidth)

\* the call of line 1153 with argsTotals left out
MainValidateArgsWithoutTotals(c) ==
    ValidateArgs(c.argsSortSize, c.argsSortSizeDesc, c.argsSortModTime, c.argsSortModTimeDesc,
                 c.argsSortName, c.argsSortNameDesc, c.argsSortNameCaseInsen,
                 c.argsSortNameCaseInsenDesc, c.argsOnlyFiles, c.argsOnlyDirs, c.argsOnlyLinks,
                 FALSE, c.argsOutputCSV, c.argsOutputHTML, c.argsOutputJSON,
                 c.argsDateNewer, c.argsDateOlder, c.argsSizeSmaller, c.argsSizeLarger,
                 c.argsLongFileNames, c.argsLongWidth)

\* the call of line 1153: main hands *argsDateNewer to the parameter dateOlder
\* and *argsDateOlder to the parameter dateNewer
MainValidateArgs(c) ==
    ValidateArgs(c.argsSortSize, c.argsSortSizeDesc, c.argsSortModTime, c.argsSortModTimeDesc,
                 c.argsSortName, c.argsSortNameDesc, c.argsSortNameCaseInsen,
                 c.argsSortNameCaseInsenDesc, c.argsOnlyFiles, c.argsOnlyDirs, c.argsOnlyLinks,
                 c.argsTotals, c.argsOutputCSV, c.argsOutputHTML, c.argsOutputJSON,
                 c.argsDateNewer, c.argsDateOlder, c.argsSizeSmaller, c.argsSizeLarger,
                 c.argsLongFileNames, c.argsLongWidth)

(***************************************************************************)
(* RenderAllEntries                                                        *)
(***************************************************************************)

MiB == 1048576

\* digits with a comma before every group of three
RECURSIVE GroupThousands(_)
GroupThousands(digits) ==
    IF Len(digits) <= 3 THEN digits
    ELSE GroupThousands(SubSeq(digits, 1, Len(digits) - 3)) \o B(",")
         \o SubSeq(digits, Len(digits) - 2, Len(digits))

\* RenderInteger("#,###.", n) and RenderFloat("#,###.", x) for a whole x >= 0
RenderInteger(n) == GroupThousands(Itoa(n))

\* lines 783-791: the entry is skipped by -if, -id or -il
OnlySkipped(e, onlyFiles, onlyDirs, onlyLinks) ==
    \/ onlyFiles /\ "F" # e.FileType
    \/ onlyDirs /\ "D" # e.FileType
    \/ onlyLinks /\ "L" # e.FileType

\* lines 813-816: the first 23 bytes of the time, or ".000" after its first 19
Milliseconds(modtime) ==
    IF modtime[20] = Ord(" ") THEN Prefix(modtime, 19) \o B(".000") ELSE modtime

\* lines 812-819: the Mod Time column
RenderModTime(t, addMilliseconds, loc) ==
    IF addMilliseconds THEN Milliseconds(Prefix(TimeString(t, loc), 23))
    ELSE Prefix(TimeString(t, loc), 19)

\* lines 807-811: the Size column
RenderSize(size, addCommas) == IF addCommas THEN RenderInteger(size) ELSE Itoa(size)

\* lines 804-821: the row of one entry
EntryRow(e, addCommas, convertToMiB, addMilliseconds, loc) ==
    <<RenderModTime(e.ModTime, addMilliseconds, loc),
      RenderSize(IF convertToMiB THEN e.Size \div MiB ELSE e.Size, addCommas),
      B(e.FileType), e.FullName>>

\* the loop of lines 782-822: the rows of the entries
RECURSIVE EntryRows(_, _, _, _, _, _, _, _)
EntryRows(entries, addCommas, convertToMiB, addMilliseconds, onlyFiles, onlyDirs, onlyLinks, loc) ==
    IF entries = <<>> THEN <<>>
    ELSE (IF OnlySkipped(Head(entries), onlyFiles, onlyDirs, onlyLinks) THEN <<>>
          ELSE <<EntryRow(Head(entries), addCommas, convertToMiB, addMilliseconds, loc)>>)
         \o EntryRows(Tail(entries), addCommas, convertToMiB, addMilliseconds,
                      onlyFiles, onlyDirs, onlyLinks, loc)

\* lines 792-803 with the size of every entry added
CountAnyType(e, acc) ==
    [totalFileSize |-> acc.totalFileSize + e.Size,
     totalFileCount |-> acc.totalFileCount + (IF "F" = e.FileType THEN 1 ELSE 0),
     totalDirCount |-> acc.totalDirCount + (IF "D" = e.FileType THEN 1 ELSE 0),
     totalSymLinkCount |-> acc.totalSymLinkCount + (IF "L" = e.FileType THEN 1 ELSE 0)]

\* lines 792-803: the totals acc after one more entry e
Count(e, acc) ==
    [totalFileSize |-> acc.totalFileSize + (IF "F" = e.FileType THEN e.Size ELSE 0),
     totalFileCount |-> acc.totalFileCount + (IF "F" = e.FileType THEN 1 ELSE 0),
     totalDirCount |-> acc.totalDirCount + (IF "D" = e.FileType THEN 1 ELSE 0),
     totalSymLinkCount |-> acc.totalSymLinkCount + (IF "L" = e.FileType THEN 1 ELSE 0)]

\* lines 792-803 ahead of the tests of lines 783-791: the running totals over
\* all the entries
RECURSIVE AccumulateBeforeOnly(_, _, _, _, _)
AccumulateBeforeOnly(entries, onlyFiles, onlyDirs, onlyLinks, acc) ==
    IF entries = <<>> THEN acc
    ELSE AccumulateBeforeOnly(Tail(entries), onlyFiles, onlyDirs, onlyLinks,
                              Count(Head(entries), acc))

\* lines 782-803: the running totals over the entries that are not skipped
RECURSIVE Accumulate(_, _, _, _, _)
Accumulate(entries, onlyFiles, onlyDirs, onlyLinks, acc) ==
    IF entries = <<>> THEN acc
    ELSE Accumulate(Tail(entries), onlyFiles, onlyDirs, onlyLinks,
                    IF OnlySkipped(Head(entries), onlyFiles, onlyDirs, onlyLinks) THEN acc
                    ELSE Count(Head(entries), acc))

NoTotals ==
    [totalFileSize |-> 0, totalFileCount |-> 0, totalDirCount |-> 0, totalSymLinkCount |-> 0]

\* lines 835-843: the averages, from the total as it is shown
Averages(total, acc) ==
    [totalFileSize |-> total,
     totalFileCount |-> acc.totalFileCount,
     totalDirCount |-> acc.totalDirCount,
     totalSymLinkCount |-> acc.totalSymLinkCount,
     averageFileSize |-> IF acc.totalFileCount > 0 THEN total \div acc.totalFileCount ELSE 0,
     averageFilesPerDir |-> IF acc.totalFileCount > 0 /\ acc.totalDirCount > 0
                            THEN acc.totalFileCount \div acc.totalDirCount ELSE 0]

\* lines 825-829: the total as it is shown, divided for -m
ShownTotals(acc, convertToMiB) ==
    Averages(IF convertToMiB THEN acc.totalFileSize \div MiB ELSE acc.totalFileSize, acc)

\* the entries with the sizes as they are shown
ShownSizes(entries, convertToMiB) ==
    [i \in 1..Len(entries) |->
        [entries[i] EXCEPT !.Size = IF convertToMiB THEN @ \div MiB ELSE @]]

\* the aggregate of -t with the sizes added after the division of line 805
AggregateOfShownSizes(entries, convertToMiB, onlyFiles, onlyDirs, onlyLinks) ==
    ShownTotals(Accumulate(ShownSizes(entries, convertToMiB), onlyFiles, onlyDirs, onlyLinks,
                           NoTotals), FALSE)

\* lines 792-803 and 824-843: the aggregate of -t
Aggregate(entries, convertToMiB, onlyFiles, onlyDirs, onlyLinks) ==
    ShownTotals(Accumulate(entries, onlyFiles, onlyDirs, onlyLinks, NoTotals), convertToMiB)

\* a row of the totals: no time, a number, a blank type and a text
TotalsRow(number, text) == <<<<>>, number, B(" "), text>>

\* lines 825-862: the rows appended for -t, given the number of rows so far
TotalsRows(agg, addCommas, nRows) ==
    <<TotalsRow(RenderSize(agg.totalFileSize, addCommas),
                B("  (total size for ") \o Itoa(agg.totalFileCount) \o B(" files)"))>>
    \o (IF nRows + 1 > 0
        THEN <<TotalsRow(RenderSize(agg.averageFileSize, addCommas),
                         B("(average size for ") \o Itoa(agg.totalFileCount) \o B(" files)"))>>
        ELSE <<>>)
    \o (IF agg.totalDirCount > 0
        THEN <<TotalsRow(Itoa(agg.totalDirCount), B("(num of directories)"))>>
        ELSE <<>>)
    \o (IF agg.averageFilesPerDir > 0
        THEN <<TotalsRow(RenderSize(agg.averageFilesPerDir, addCommas),
                         B("(average num of files per directory)"))>>
        ELSE <<>>)
    \o (IF agg.totalSymLinkCount > 0
        THEN <<TotalsRow(Itoa(agg.totalSymLinkCount), B("(num of sym links)"))>>
        ELSE <<>>)

\* lines 824-863: the rows of the entries, then those of -t
WithTotals(rows, agg, addCommas, includeTotals) ==
    IF includeTotals THEN rows \o TotalsRows(agg, addCommas, Len(rows)) ELSE rows

\* lines 782-863: allRows as the output branches receive it
AllRows(entries, addCommas, convertToMiB, addMilliseconds, includeTotals, onlyFiles, onlyDirs, onlyLinks, loc) ==
    WithTotals(EntryRows(entries, addCommas, convertToMiB, addMilliseconds,
                         onlyFiles, onlyDirs, onlyLinks, loc),
               Aggregate(entries, convertToMiB, onlyFiles, onlyDirs, onlyLinks),
               addCommas, includeTotals)

header == <<B("Mod Time"), B("Size"), B("Type"), B("Name")>>

\* strings.Join(elems, sep)
RECURSIVE Join(_, _)
Join(elems, sep) ==
    IF elems = <<>> THEN <<>>
    ELSE IF Len(elems) = 1 THEN elems[1]
    ELSE elems[1] \o sep \o Join(Tail(elems), sep)

Quote == <<34>>

\* lines 868, 870: one line of CSV
CsvLine(row) == Quote \o Join(row, Quote \o B(",") \o Quote) \o Quote

\* lines 867-872: the lines of the CSV output
CsvOutput(rows) == <<CsvLine(header)>> \o [i \in 1..Len(rows) |-> CsvLine(rows[i])]

\* lines 881-885: the three lines of one HTML row
HtmlRow(row) ==
    <<B("<tr>"), <<9>> \o B("<td>") \o Join(row, B("</td><td>")) \o B("</td>"), B("</tr>")>>

RECURSIVE HtmlRows(_)
HtmlRows(rows) ==
    IF rows = <<>> THEN <<>> ELSE HtmlRow(Head(rows)) \o HtmlRows(Tail(rows))

\* lines 875-889: the lines of the HTML output
HtmlOutput(rows) ==
    <<B("<!DOCTYPE html>"), B("<html>"), B("<body>"),
      B("<table border='1' cellpadding='3' cellspacing='3'>"),
      B("<th>") \o Join(header, B("</th><th>")) \o B("</th>")>>
    \o HtmlRows(rows)
    \o <<B("</table>"), B("</body>"), B("</html>")>>

\* the digits of \u00XX
hex == B("0123456789abcdef")

\* the escape of one ASCII byte in a JSON string (encoding/json, HTML
\* escaping on): the quote and the backslash after a backslash, \b \f \n \r
\* \t (\b and \f as Go 1.22 and later write them), \u00XX for the other
\* bytes below 32 and for '<', '>' and '&'
JsonByte(c) ==
    IF c \in {34, 92} THEN <<92, c>>
    ELSE IF c = 8 THEN <<92>> \o B("b")
    ELSE IF c = 12 THEN <<92>> \o B("f")
    ELSE IF c = 10 THEN <<92>> \o B("n")
    ELSE IF c = 13 THEN <<92>> \o B("r")
    ELSE IF c = 9 THEN <<92>> \o B("t")
    ELSE IF c < 32 \/ c \in {60, 62, 38}
         THEN <<92>> \o B("u00") \o <<hex[(c \div 16) + 1], hex[(c % 16) + 1]>>
    ELSE <<c>>

\* the content of a JSON string: a byte that is no UTF-8 is written as
\* \ufffd, the runes U+2028 and U+2029 as \u2028 and \u2029, and the other
\* runes from 128 on as they are
RECURSIVE JsonEscape(_)
JsonEscape(str) ==
    IF str = <<>> THEN <<>>
    ELSE IF str[1] < 128 THEN JsonByte(str[1]) \o JsonEscape(Tail(str))
    ELSE (IF DecodeRune(str, 1).size = 1 THEN <<92>> \o B("ufffd")
          ELSE IF DecodeRune(str, 1).r \in {8232, 8233}
               THEN <<92>> \o B("u202") \o <<hex[(DecodeRune(str, 1).r % 16) + 1]>>
          ELSE SubSeq(str, 1, DecodeRune(str, 1).size))
         \o JsonEscape(SubSeq(str, DecodeRune(str, 1).size + 1, Len(str)))

JsonString(str) == Quote \o JsonEscape(str) \o Quote

\* the lines of one row, an array of strings, indented by 4 and 8
JsonRow(row, last) ==
    <<B("    [")>>
    \o [i \in 1..Len(row) |->
          B("        ") \o JsonString(row[i]) \o (IF i < Len(row) THEN B(",") ELSE <<>>)]
    \o <<B("    ]") \o (IF last THEN <<>> ELSE B(","))>>

RECURSIVE JsonRows(_)
JsonRows(rows) ==
    IF rows = <<>> THEN <<>> ELSE JsonRow(Head(rows), Len(rows) = 1) \o JsonRows(Tail(rows))

\* line 908: json.MarshalIndent(allRows, "", "    "); a nil slice is null
JsonOutput(rows) ==
    IF rows = <<>> THEN <<B("null")>> ELSE <<B("[")>> \o JsonRows(rows) \o <<B("]")>>

\* line 898: time.Parse("2006-01-02 15:04:05", value) returns a nil error: the
\* value is the 19 byte time, followed by nothing or by a fraction of a second
JsonTimeOK(value) ==
    /\ Len(value) >= 19
    /\ \A i \in 1..19 : IF i \in {5, 8} THEN value[i] = Ord("-")
                        ELSE IF i = 11 THEN value[i] = Ord(" ")
                        ELSE IF i \in {14, 17} THEN value[i] = Ord(":")
                        ELSE IsDigit(value[i])
    /\ \/ Len(value) = 19
       \/ /\ Len(value) > 20
          /\ value[20] = Ord(".")
          /\ \A i \in 21..Len(value) : IsDigit(value[i])

\* str cut to its first left and its last right bytes around "..."
Ellipsis(str, left, right) ==
    SubSeq(str, 1, left) \o B("...") \o SubSeq(str, Len(str) - right + 1, Len(str))

\* ellipsis.Shorten(str, maxLen): a string longer than maxLen is cut to maxLen
\* bytes with "..." in its middle
Shorten(str, maxLen) ==
    IF Len(str) <= maxLen THEN str
    ELSE Ellipsis(str, (maxLen - 2) \div 2, (maxLen - 3) - (maxLen - 2) \div 2)

\* shortenFileName: make() gives len(allRows) nil rows, and append adds the
\* rows behind them
shortenFileName(rows, maxWidth) ==
    [i \in 1..Len(rows) |-> <<>>]
    \o [i \in 1..Len(rows) |-> [rows[i] EXCEPT ![4] = Shorten(rows[i][4], maxWidth)]]

\* lines 922-924 left out
NoMinimum(w) == w

\* lines 922-924: at least minTermWidth
AtLeastMin(w) == IF w < minTermWidth THEN minTermWidth ELSE w

\* lines 916-925: maxWidth
MaxWidth(longFileNames, longWidth, width) ==
    IF longFileNames = FALSE
    THEN AtLeastMin(IF longWidth > 0 THEN longWidth - minTermWidth + 2 ELSE width - minTermWidth)
    ELSE 3000

Line(bytes) == [kind |-> "line", bytes |-> bytes]

Lines(seq) == [i \in 1..Len(seq) |-> Line(seq[i])]

\* what tablewriter renders: the header and the rows it was given
Table(rows) == [kind |-> "table", header |-> header, rows |-> rows]

(***************************************************************************)
(* Inputs                                                                  *)
(***************************************************************************)

MaxFiles == 2
MaxFilterFiles == 1
MaxSortLen == 3

EDT == -4 * 3600
CET == 1 * 3600
Zones == {EDT, CET}

\* the flag values of a command line without options
Default ==
    [argsSortSize |-> FALSE, argsSortSizeDesc |-> FALSE,
     argsSortModTime |-> FALSE, argsSortModTimeDesc |-> FALSE,
     argsSortName |-> FALSE, argsSortNameDesc |-> FALSE,
     argsSortNameCaseInsen |-> FALSE, argsSortNameCaseInsenDesc |-> FALSE,
     argsVersion |-> FALSE, argsQuiet |-> FALSE, argsCommas |-> FALSE,
     argsMebibytes |-> FALSE, argsMilliseconds |-> FALSE, argsTotals |-> FALSE,
     argsOnlyFiles |-> FALSE, argsOnlyDirs |-> FALSE, argsOnlyLinks |-> FALSE,
     argsOutputCSV |-> FALSE, argsOutputHTML |-> FALSE, argsOutputJSON |-> FALSE,
     argsFilenames |-> <<>>, argsExcludeDot |-> FALSE,
     argsExcludeRE |-> <<>>, argsIncludeRE |-> <<>>,
     argsDateNewer |-> <<>>, argsDateOlder |-> <<>>,
     argsSizeSmaller |-> 0, argsSizeLarger |-> 0,
     argsLongFileNames |-> FALSE, argsLongWidth |-> 0,
     args |-> <<>>]

\* the flags of Default with the flags in set on
On(set) == [f \in set |-> TRUE] @@ Default

SortFlags ==
    {"argsSortSize", "argsSortSizeDesc", "argsSortModTime", "argsSortModTimeDesc",
     "argsSortName", "argsSortNameDesc", "argsSortNameCaseInsen", "argsSortNameCaseInsenDesc"}
OnlyFlags == {"argsOnlyFiles", "argsOnlyDirs", "argsOnlyLinks"}
OutputFlags == {"argsOutputCSV", "argsOutputHTML", "argsOutputJSON"}

AtMost(set, n) == {x \in SUBSET set : Cardinality(x) <= n}

\* names of 45 and of 60 bytes
Name45 == B("dir/a-file-name-of-forty-five-bytes-in-all.tx")
Name60 == B("dir/sub/a-file-name-that-is-sixty-bytes-long-in-all-data.txt")

\* names that are not ASCII: U+00E9 and its capital U+00C9, the Kelvin sign
\* U+212A (which is k when case is ignored), the Greek capital sigma U+03A3;
\* a name with a control byte, a name that is no UTF-8 and the line
\* separator U+2028
NameEAcute == <<195, 169>>
NameCapitalEAcute == <<195, 137>>
NameKelvin == <<226, 132, 170>>
NameSigma == <<206, 163>>
NameControl == <<97, 1>>
NameNotUTF8 == <<97, 255>>
NameLineSeparator == <<226, 128, 168>>

\* the files of the model's file system, with modification times given in the
\* local time of the zone at offset loc
World(loc) ==
    LET at(d, hh, mm, ss, ns) == TimeDate(2019, 3, d, hh, mm, ss, ns, loc)
        file(size, t, mode) == [size |-> size, modTime |-> t, mode |-> mode]
    IN  (B("a")    :> file(10, at(25, 23, 59, 59, 0), "regular"))
     @@ (B("A")    :> file(10, at(25, 23, 59, 59, 0), "regular"))
     @@ (B("ab")   :> file(20, at(26, 0, 0, 1, 0), "regular"))
     @@ (B("b")    :> file(30, at(24, 23, 59, 59, 100000000), "regular"))
     @@ (B("big")  :> file(3 * MiB + 5, at(25, 0, 0, 0, 120000000), "regular"))
     @@ (B("big2") :> file(2 * MiB - 5, at(25, 0, 0, 0, 0), "regular"))
     @@ (B("huge") :> file(1500 * MiB + 7, at(25, 0, 0, 0, 0), "regular"))
     @@ (B("c")    :> file(10, at(25, 23, 59, 59, 500000000), "regular"))
     @@ (B("d")    :> file(40, at(25, 0, 0, 0, 123000000), "dir"))
     @@ (B("e")    :> file(40, at(26, 12, 0, 0, 0), "dir"))
     @@ (B("d/.g") :> file(10, at(25, 12, 0, 0, 0), "regular"))
     @@ (B(".h")   :> file(20, at(25, 12, 0, 0, 0), "regular"))
     @@ (B("l")    :> file(5, at(26, 23, 59, 59, 123456789), "symlink"))
     @@ (B("p")    :> file(0, at(27, 0, 0, 1, 0), "other"))
     @@ (NameEAcute :> file(10, at(25, 12, 0, 0, 0), "regular"))
     @@ (NameCapitalEAcute :> file(20, at(25, 12, 0, 0, 0), "regular"))
     @@ (NameKelvin :> file(30, at(25, 12, 0, 0, 500000000), "regular"))
     @@ (NameSigma :> file(10, at(25, 12, 0, 0, 500000000), "regular"))
     @@ (NameControl :> file(10, at(25, 12, 0, 0, 500000000), "regular"))
     @@ (NameNotUTF8 :> file(10, at(25, 12, 0, 0, 500000000), "regular"))
     @@ (NameLineSeparator :> file(10, at(25, 12, 0, 0, 500000000), "regular"))
     @@ (Name45 :> file(45, at(25, 12, 0, 0, 0), "regular"))
     @@ (Name60 :> file(60, at(25, 12, 0, 0, 0), "regular"))

\* a name that does not exist
Missing == B("nope")


\* the sequences of 1 to n elements of set
SeqsUpTo(set, n) == UNION {[1..k -> set] : k \in 1..n}

\* the path list read from STDIN
Stdin(lines) == [lines |-> lines, openErr |-> FALSE, glob |-> <<>>]

\* the path list of the file named on the command line
FromFile(lines, openErr) == [lines |-> lines, openErr |-> openErr, glob |-> <<>>]

\* the matches filepath.Glob returns for each pattern of -f
FromGlob(glob) == [lines |-> <<>>, openErr |-> FALSE, glob |-> glob]

Input(c, z, w, s) == [cfg |-> c, zone |-> z, termWidth |-> w, src |-> s]

D25 == B("20190325")
D26 == B("20190326")
BadDate == B("2019032")

TotalsExample == <<B("a"), B("ab"), B("b"), B("d"), B("e")>>

\* one or two sort flags, short lists with a tie in size and time
SortInputs ==
    {Input(On(f), EDT, 120, Stdin(l)) :
        f \in AtMost(SortFlags, 2), l \in SeqsUpTo({B("b"), B("a"), B("A")}, MaxFiles)}

\* totals, include-only flags and output formats
OutputInputs ==
    {Input([argsTotals |-> t] @@ On(o \cup f), EDT, 120, Stdin(l)) :
        t \in BOOLEAN, o \in AtMost(OutputFlags, 2), f \in AtMost(OnlyFlags, 2),
        l \in {TotalsExample} \cup SeqsUpTo({B("a"), B("d"), B("l"), B("p"), Missing}, 1)}

\* number and time formatting
FormatInputs ==
    {Input([argsCommas |-> c, argsMebibytes |-> m, argsMilliseconds |-> ms, argsTotals |-> t]
           @@ On(o), z, 120, Stdin(l)) :
        c \in BOOLEAN, m \in BOOLEAN, ms \in BOOLEAN, t \in BOOLEAN,
        o \in AtMost(OutputFlags, 1), z \in Zones,
        l \in {<<B("big"), B("b")>>, <<B("d"), B("l")>>, <<B("huge"), B("big2")>>}}

\* name truncation
LongInputs ==
    {Input([argsLongFileNames |-> lf, argsLongWidth |-> lw] @@ Default, EDT, w, Stdin(<<l>>)) :
        lf \in BOOLEAN, lw \in {0, 60, 200}, w \in {80, 100, 200},
        l \in {B("a"), Name45, Name60}}

\* date and size ranges, valid and not
RangeInputs ==
    {Input([argsDateNewer |-> dn, argsDateOlder |-> do] @@ Default, z, 120,
           Stdin(<<B("a"), B("ab")>>)) :
        dn \in {<<>>, D25, D26, BadDate}, do \in {<<>>, D25, D26, BadDate}, z \in Zones}
    \cup
    {Input([argsSizeSmaller |-> szs, argsSizeLarger |-> szl] @@ Default, EDT, 120,
           Stdin(<<B("a"), B("ab"), B("b")>>)) :
        szs \in {0, 10, 20}, szl \in {0, 10, 20}}

\* regular expressions, valid and not, and paths that do not exist
RegexInputs ==
    {Input([argsExcludeRE |-> er, argsIncludeRE |-> ir, argsQuiet |-> q] @@ Default, EDT, 120,
           Stdin(l)) :
        er \in {<<>>, B("b"), B("(")}, ir \in {<<>>, B("^a"), B("[")}, q \in BOOLEAN,
        l \in SeqsUpTo({B("a"), B("ab"), Missing}, MaxFiles) \cup {<<B("b"), Missing, B("a")>>}}

\* the three sources of the path list, and -v
SourceInputs ==
    {Input([argsVersion |-> TRUE] @@ On(f), EDT, 120, Stdin(<<B("a")>>)) :
        f \in AtMost(SortFlags, 2)}
    \cup {Input([argsExcludeRE |-> er, argsDateNewer |-> dn, argsDateOlder |-> do] @@ Default,
                EDT, 120, Stdin(<<>>)) :
            er \in {<<>>, B("(")}, dn \in {<<>>, D26, BadDate}, do \in {<<>>, D25}}
    \cup {Input([args |-> <<B("list.txt")>>] @@ Default, EDT, 120, FromFile(l, e)) :
            l \in {<<>>, <<B("a"), B("a")>>, <<B("b"), B("a")>>}, e \in BOOLEAN}
    \cup {Input([argsFilenames |-> B("a* b*")] @@ Default, EDT, 120, FromGlob(g)) :
            g \in {<<>>,
                   (B("a*") :> <<B("a"), B("ab")>>),
                   (B("b*") :> <<B("b")>>),
                   (B("a*") :> <<B("a"), B("ab")>>) @@ (B("b*") :> <<B("b")>>)}}
    \cup {Input([argsFilenames |-> B("a* a*")] @@ Default, EDT, 120,
                FromGlob((B("a*") :> <<B("a"), B("ab")>>)))}
    \cup {Input([argsFilenames |-> f, argsQuiet |-> q] @@ Default, EDT, 120, FromGlob(g)) :
            f \in {B("["), B("a* ["), B("[ b* [a-]")}, q \in BOOLEAN,
            g \in {<<>>, (B("a*") :> <<B("a"), B("ab")>>) @@ (B("b*") :> <<B("b")>>)}}

\* patterns that show the syntax of regular expressions
SyntaxInputs ==
    {Input([argsExcludeRE |-> er, argsIncludeRE |-> ir] @@ Default, EDT, 120,
           Stdin(<<B("a"), B("ab"), B("b")>>)) :
        er \in {<<>>, B("]"), B(")("), B("a**"), B("^(a|c)$")},
        ir \in {<<>>, B("[[]"), B("[^b-z]b?$"), B("(?i)A.+"), B("a{2}")}}

\* names and patterns that are not ASCII: Unicode classes, case folding
\* beyond ASCII, a group name used twice, a pattern that is no UTF-8; the JSON
\* of names that need escapes; patterns of -f set apart by a tab, with a class
\* that is no UTF-8 and with a directory that is malformed
UnicodeInputs ==
    {Input([argsExcludeRE |-> er, argsIncludeRE |-> ir, argsOutputJSON |-> j,
            argsSortNameCaseInsen |-> si] @@ Default,
           EDT, 120, Stdin(l)) :
        er \in {<<>>, <<92>> \o B("pL$"), <<255>>},
        ir \in {<<>>, B("(?i)k"), B("[") \o <<92>> \o B("p{Greek}k]"), B("(?P<n>a)(?P<n>b)"),
                B("^.$")},
        j \in BOOLEAN, si \in BOOLEAN,
        l \in {<<NameCapitalEAcute, NameEAcute>>, <<NameKelvin, NameControl, NameSigma>>,
               <<NameNotUTF8, NameLineSeparator>>}}
    \cup {Input([argsFilenames |-> f, argsQuiet |-> q] @@ Default, EDT, 120, FromGlob(g)) :
            f \in {B("a*") \o <<9>> \o B("b*"), <<91, 255, 93>> \o B(" a*"),
                   B("[a/b] b*"), <<91, 195, 169, 93>>},
            q \in BOOLEAN,
            g \in {<<>>, (B("a*") :> <<B("a"), B("ab")>>) @@ (B("b*") :> <<B("b")>>)
                         @@ (<<91, 195, 169, 93>> :> <<NameEAcute>>)}}

\* lists that are not empty and yield no entry, or one
RejectedInputs ==
    {Input([argsExcludeRE |-> er, argsIncludeRE |-> ir] @@ Default, EDT, 120, Stdin(l)) :
        er \in {<<>>, B("b"), B("(")}, ir \in {<<>>, B("^a")},
        l \in {<<Missing>>, <<B("b"), Missing>>, <<B("ab"), B("b")>>}}

\* a regular expression that does not compile or a date that does not parse,
\* together with what ends the run before they are tested: -v, two sort
\* flags, an inverted size range, a list file that does not open, patterns
\* of -f without a match
EarlyExitInputs ==
    {Input([argsIncludeRE |-> ir, argsDateOlder |-> do] @@ e[1], EDT, 120, e[2]) :
        ir \in {<<>>, B("[")}, do \in {<<>>, BadDate},
        e \in {<<[argsVersion |-> TRUE] @@ Default, Stdin(<<B("a")>>)>>,
               <<On({"argsSortSize", "argsSortName"}), Stdin(<<B("a")>>)>>,
               <<[argsSizeSmaller |-> 1, argsSizeLarger |-> 2] @@ Default, Stdin(<<B("a")>>)>>,
               <<[args |-> <<B("list.txt")>>] @@ Default, FromFile(<<B("a")>>, TRUE)>>,
               <<[argsFilenames |-> B("a*")] @@ Default, FromGlob(<<>>)>>}}

MainInputs ==
    SortInputs \cup OutputInputs \cup FormatInputs \cup LongInputs \cup RangeInputs
    \cup RegexInputs \cup SourceInputs \cup SyntaxInputs \cup UnicodeInputs
    \cup EarlyExitInputs

FilterNames ==
    {B("a"), B("ab"), B("b"), B("d"), B("d/.g"), B(".h"), B("l"), B("p"), Missing}

\* every combination of the filters of GetFileInfo, in both zones
FilterInputs ==
    {Input([argsExcludeDot |-> ed, argsExcludeRE |-> er, argsIncludeRE |-> ir,
            argsDateNewer |-> dn, argsDateOlder |-> do,
            argsSizeSmaller |-> sz[1], argsSizeLarger |-> sz[2]] @@ Default,
           z, 120, Stdin(l)) :
        ed \in BOOLEAN, er \in {<<>>, B("b")}, ir \in {<<>>, B("^a")},
        dn \in {<<>>, D25}, do \in {<<>>, D25}, sz \in {<<0, 0>>, <<20, 0>>, <<0, 20>>, <<20, 10>>},
        z \in Zones, l \in SeqsUpTo(FilterNames, MaxFilterFiles)}

(***************************************************************************)
(* main                                                                    *)
(***************************************************************************)

NoResult == [key |-> "", result |-> <<>>]

ZeroAggregate ==
    [totalFileSize |-> 0, totalFileCount |-> 0, totalDirCount |-> 0, totalSymLinkCount |-> 0,
     averageFileSize |-> 0, averageFilesPerDir |-> 0]

InitRun(inputs) ==
    /\ \E x \in inputs :
          /\ cfg = x.cfg
          /\ zone = x.zone
          /\ termWidth = x.termWidth
          /\ fs = World(x.zone)
          /\ src = x.src
    /\ pc = "main"
    /\ allFilenames = <<>>
    /\ idx = 0
    /\ allEntries = <<>>
    /\ statCalls = <<>>
    /\ stdout = <<>>
    /\ allRows = <<>>
    /\ stderr = <<>>
    /\ exitCode = -1
    /\ cause = ""
    /\ totals = ZeroAggregate
    /\ sortIn = <<>>
    /\ sortOut = NoResult

env == <<cfg, zone, termWidth, fs, src, sortIn, sortOut>>

Msg(msg, arg) == [msg |-> msg, arg |-> arg]

\* os.Exit at the fatal exit named why, after its message on standard error
Fatal(why, arg) ==
    /\ pc' = "exit"
    /\ exitCode' = FatalCode(why)
    /\ cause' = why
    /\ stderr' = Append(stderr, Msg(why, arg))

\* a rune of white space starts at place i of str (no byte inside a rune
\* and no byte that is no UTF-8 reads as white space)
SpaceAt(str, i) == IsSpace(DecodeRune(str, i).r)

\* the place of the first white space of str, len(str) + 1 when it has none
FirstSpace(str) ==
    IF \E i \in 1..Len(str) : SpaceAt(str, i)
    THEN CHOOSE i \in 1..Len(str) : SpaceAt(str, i) /\ \A j \in 1..(i - 1) : ~SpaceAt(str, j)
    ELSE Len(str) + 1

\* strings.Fields(str): the pieces of str between its white space, which is
\* every rune of unicode.IsSpace
RECURSIVE Fields(_)
Fields(str) ==
    IF str = <<>> THEN <<>>
    ELSE IF SpaceAt(str, 1)
         THEN With(SubSeq(str, DecodeRune(str, 1).size + 1, Len(str)), LAMBDA rest :
                  Fields(rest))
    ELSE With(FirstSpace(str), LAMBDA e :
             <<SubSeq(str, 1, e - 1)>>
             \o With(SubSeq(str, e, Len(str)), LAMBDA rest : Fields(rest)))

\* getEsc of path/filepath: one rune of a bracket class of a glob pattern,
\* at place i and after a backslash if there is one; the place after it, 0
\* for ErrBadPattern: no rune, a '-' or a ']', bytes that are no UTF-8, or
\* nothing after the rune
getEsc(pattern, i) ==
    LET j == IF pattern[i] = 92 THEN i + 1 ELSE i
    IN  IF i > Len(pattern) \/ pattern[i] \in {45, 93} THEN 0
        ELSE IF j > Len(pattern) THEN 0
        ELSE IF DecodeRune(pattern, j) = [r |-> RuneError, size |-> 1] THEN 0
        ELSE IF j + DecodeRune(pattern, j).size > Len(pattern) THEN 0
        ELSE j + DecodeRune(pattern, j).size

\* the ranges of a bracket class from place i on, nrange of them read: the
\* place after the closing ']', 0 for ErrBadPattern
RECURSIVE classRanges(_, _, _)
classRanges(pattern, i, nrange) ==
    LET lo == getEsc(pattern, i)
        hi == getEsc(pattern, lo + 1)
    IN  IF i <= Len(pattern) /\ pattern[i] = 93 /\ nrange > 0 THEN i + 1
        ELSE IF lo = 0 THEN 0
        ELSE IF pattern[lo] # 45 THEN classRanges(pattern, lo, nrange + 1)
        ELSE IF hi = 0 THEN 0
        ELSE classRanges(pattern, hi, nrange + 1)

\* filepath.Match finds no syntax error in the pattern from place i on: a
\* bracket class is closed and has a range, no range starts or ends with an
\* unescaped '-' or ']', and a backslash has a character after it
RECURSIVE PatternOK(_, _)
PatternOK(pattern, i) ==
    LET after == classRanges(pattern,
                             IF i + 1 <= Len(pattern) /\ pattern[i + 1] = 94 THEN i + 2
                             ELSE i + 1, 0)
    IN  IF i > Len(pattern) THEN TRUE
        ELSE IF pattern[i] = 91 THEN after # 0 /\ PatternOK(pattern, after)
        ELSE IF pattern[i] = 92 THEN i + 1 <= Len(pattern) /\ PatternOK(pattern, i + 2)
        ELSE PatternOK(pattern, i + 1)

pathSeparatorsLimit == 10000

\* hasMeta: the path holds one of '*', '?', '[' and the backslash
hasMeta(path) == \E i \in DOMAIN path : path[i] \in {42, 63, 91, 92}

\* cleanGlobPath of the directory that filepath.Split gives for pattern: the
\* bytes before the last slash, "." when there is no slash and "/" when the
\* only slash comes first
cleanGlobPath(pattern) ==
    IF LastSlash(pattern) = 0 THEN B(".")
    ELSE IF LastSlash(pattern) = 1 THEN B("/")
    ELSE SubSeq(pattern, 1, LastSlash(pattern) - 1)

\* globWithLimit(pattern, depth) returns ErrBadPattern: the pattern is
\* malformed, or its directory has wildcards and globWithLimit returns
\* ErrBadPattern for the directory, which it does at pathSeparatorsLimit
\* levels of directories
RECURSIVE globWithLimit(_, _)
globWithLimit(pattern, depth) ==
    IF depth = pathSeparatorsLimit THEN TRUE
    ELSE IF ~PatternOK(pattern, 1) THEN TRUE
    ELSE IF ~hasMeta(pattern) \/ ~hasMeta(cleanGlobPath(pattern)) THEN FALSE
    ELSE IF cleanGlobPath(pattern) = pattern THEN TRUE
    ELSE globWithLimit(cleanGlobPath(pattern), depth + 1)

\* filepath.Glob(pattern): ErrBadPattern for a malformed pattern, and the
\* matching names otherwise
Glob(source, pattern) ==
    IF globWithLimit(pattern, 0) THEN [names |-> <<>>, err |-> TRUE]
    ELSE IF pattern \in DOMAIN source.glob THEN [names |-> source.glob[pattern], err |-> FALSE]
    ELSE [names |-> <<>>, err |-> FALSE]

Range(seq) == {seq[i] : i \in 1..Len(seq)}

\* the keys of the map allGlobbedNames (lines 1175-1186)
GlobbedNames(source, filenames) ==
    UNION {Range(Glob(source, pattern).names) : pattern \in Range(Fields(filenames))}

\* lines 1177-1180: one line on standard error for each malformed pattern
RECURSIVE GlobErrors(_, _)
GlobErrors(source, fileglobs) ==
    IF fileglobs = <<>> THEN <<>>
    ELSE (IF Glob(source, fileglobs[1]).err THEN <<Msg("badPattern", <<>>)>> ELSE <<>>)
         \o GlobErrors(source, Tail(fileglobs))

\* the orders in which a range over a map can visit the keys in set
Orders(set) ==
    {o \in [1..Cardinality(set) -> set] : \A i, j \in DOMAIN o : i # j => o[i] # o[j]}

\* the lines of input without those that repeat an earlier line
RECURSIVE GetFileListWithoutRepeats(_)
GetFileListWithoutRepeats(input) ==
    IF input = <<>> THEN <<>>
    ELSE GetFileListWithoutRepeats(SubSeq(input, 1, Len(input) - 1))
         \o (IF \E i \in 1..(Len(input) - 1) : input[i] = input[Len(input)] THEN <<>>
             ELSE <<input[Len(input)]>>)

\* GetFileList
GetFileList(input) == input

\* lines 1147-1153: -v, then ValidateArgs
Validate ==
    /\ pc = "main"
    /\ IF cfg.argsVersion THEN Fatal("version", <<>>)
       ELSE IF MainValidateArgs(cfg) # "" THEN Fatal(MainValidateArgs(cfg), <<>>)
       ELSE pc' = "list" /\ UNCHANGED <<exitCode, cause, stderr>>
    /\ UNCHANGED <<env, allFilenames, idx, allEntries, statCalls, stdout, allRows, totals>>

\* lines 1160-1221 without the tests of lines 1192 and 1217: an empty path
\* list is handed to GetFileInfo
ReadListAcceptsEmpty ==
    /\ pc = "list"
    /\ IF Len(cfg.argsFilenames) > 0
       THEN \E order \in Orders(GlobbedNames(src, cfg.argsFilenames)) :
               /\ allFilenames' = order
               /\ pc' = "setup"
               /\ stderr' = stderr \o GlobErrors(src, Fields(cfg.argsFilenames))
                                   \o (IF Len(order) = 1 THEN <<Msg("oneMatch", <<>>)>>
                                       ELSE <<>>)
               /\ UNCHANGED <<exitCode, cause>>
       ELSE IF Len(cfg.args) > 0 /\ src.openErr
            THEN Fatal("openFailed", cfg.args[1]) /\ UNCHANGED allFilenames
       ELSE /\ allFilenames' = GetFileList(src.lines)
            /\ pc' = "setup"
            /\ UNCHANGED <<exitCode, cause, stderr>>
    /\ UNCHANGED <<env, idx, allEntries, statCalls, stdout, allRows, totals>>

\* lines 1160-1221: the path list
ReadList ==
    /\ pc = "list"
    /\ IF Len(cfg.argsFilenames) > 0
       THEN \E order \in Orders(GlobbedNames(src, cfg.argsFilenames)) :
               IF Len(order) = 0
               THEN /\ pc' = "exit"
                    /\ exitCode' = FatalCode("globNoMatch")
                    /\ cause' = "globNoMatch"
                    /\ stderr' = Append(stderr \o GlobErrors(src, Fields(cfg.argsFilenames)),
                                        Msg("globNoMatch", <<>>))
                    /\ allFilenames' = order
               ELSE /\ allFilenames' = order
                    /\ pc' = "setup"
                    /\ stderr' = stderr \o GlobErrors(src, Fields(cfg.argsFilenames))
                                        \o (IF Len(order) = 1 THEN <<Msg("oneMatch", <<>>)>>
                                            ELSE <<>>)
                    /\ UNCHANGED <<exitCode, cause>>
       ELSE IF Len(cfg.args) > 0 /\ src.openErr
            THEN Fatal("openFailed", cfg.args[1]) /\ UNCHANGED allFilenames
       ELSE IF Len(GetFileList(src.lines)) = 0
            THEN Fatal("emptyList", <<>>) /\ allFilenames' = GetFileList(src.lines)
       ELSE /\ allFilenames' = GetFileList(src.lines)
            /\ pc' = "setup"
            /\ UNCHANGED <<exitCode, cause, stderr>>
    /\ UNCHANGED <<env, idx, allEntries, statCalls, stdout, allRows, totals>>

\* the step of main after a set-up that ended with code
AfterSetup(code) ==
    IF code = 3 THEN Fatal("excludeRegex", cfg.argsExcludeRE)
    ELSE IF code = 4 THEN Fatal("includeRegex", cfg.argsIncludeRE)
    ELSE IF code = 5 THEN Fatal("invalidDate", <<>>)
    ELSE pc' = "collect" /\ UNCHANGED <<exitCode, cause, stderr>>

\* GetFileInfo, lines 660-689: the regular expressions and the dates
GetFileInfoStart ==
    /\ pc = "setup"
    /\ AfterSetup(GetFileInfoSetup(cfg.argsExcludeRE, cfg.argsIncludeRE,
                                   cfg.argsDateNewer, cfg.argsDateOlder, zone))
    /\ UNCHANGED <<env, allFilenames, idx, allEntries, statCalls, stdout, allRows, totals>>

\* the effect of one iteration on path fname, r being what it found
Examined(fname, r) ==
    /\ idx' = idx + 1
    /\ statCalls' = IF r.stat THEN Append(statCalls, fname) ELSE statCalls
    /\ stderr' = IF r.errLine THEN Append(stderr, Msg("lstat", fname)) ELSE stderr
    /\ allEntries' = IF r.keep THEN Append(allEntries, r.entry) ELSE allEntries

\* GetFileInfo, lines 693-743: one iteration of the loop
GetFileInfoStep ==
    /\ pc = "collect"
    /\ idx < Len(allFilenames)
    /\ Examined(allFilenames[idx + 1],
                ExaminePath(fs, zone, allFilenames[idx + 1], cfg.argsQuiet, cfg.argsExcludeDot,
                            cfg.argsExcludeRE, cfg.argsIncludeRE, cfg.argsDateNewer,
                            cfg.argsDateOlder, cfg.argsSizeSmaller, cfg.argsSizeLarger))
    /\ UNCHANGED <<env, pc, allFilenames, stdout, allRows, exitCode, cause, totals>>

\* GetFileInfo, line 744: the loop is over
GetFileInfoReturn ==
    /\ pc = "collect"
    /\ idx = Len(allFilenames)
    /\ pc' = "sort"
    /\ UNCHANGED <<env, allFilenames, idx, allEntries, statCalls, stdout, allRows, stderr,
                   exitCode, cause, totals>>

\* line 1224: SortAllEntries
Sort ==
    /\ pc = "sort"
    /\ allEntries' = SortAllEntries(allEntries, cfg.argsSortSize, cfg.argsSortSizeDesc,
                                    cfg.argsSortModTime, cfg.argsSortModTimeDesc,
                                    cfg.argsSortName, cfg.argsSortNameDesc,
                                    cfg.argsSortNameCaseInsen, cfg.argsSortNameCaseInsenDesc)
    /\ pc' = "render"
    /\ UNCHANGED <<env, allFilenames, idx, statCalls, stdout, allRows, stderr, exitCode,
                   cause, totals>>

\* main returns after RenderAllEntries
Finish == pc' = "done" /\ exitCode' = 0 /\ UNCHANGED <<cause, stderr>>

\* what time.Parse leaves of value after the layout "2006-01-02 15:04:05":
\* the bytes after the seconds and after the digits of a fraction that
\* follows them
ExtraText(value) ==
    IF Len(value) >= 21 /\ value[20] = Ord(".") /\ IsDigit(value[21])
    THEN SubSeq(value, SkipDigits(value, 21), Len(value))
    ELSE SubSeq(value, 20, Len(value))

\* the message of the time.ParseError of time.Parse("2006-01-02 15:04:05",
\* value) for a value that Time.String wrote: the year does not start with
\* four digits (a year before 0), the year has more than four digits (from
\* 10000 on), or text follows the time
ParseError(value) ==
    LET as(elem, layoutElem) ==
            B(" as ") \o Quote \o B("2006-01-02 15:04:05") \o Quote \o B(": cannot parse ")
            \o Quote \o elem \o Quote \o B(" as ") \o Quote \o layoutElem \o Quote
    IN  B("parsing time ") \o Quote \o value \o Quote
        \o (IF Len(value) < 4 \/ \E i \in 1..4 : ~IsDigit(value[i])
            THEN as(value, B("2006"))
            ELSE IF Len(value) < 5 \/ value[5] # Ord("-")
                 THEN as(SubSeq(value, 5, Len(value)), B("-"))
            ELSE B(": extra text: ") \o Quote \o ExtraText(value) \o Quote)

\* lines 898-902: the error of time.Parse is printed on standard output and
\* the process exits with 1
JsonTimeError(value) ==
    /\ stdout' = <<Line(ParseError(value))>>
    /\ pc' = "exit"
    /\ exitCode' = FatalCode("jsonTime")
    /\ cause' = "jsonTime"
    /\ UNCHANGED stderr

\* the first row whose time does not parse, 0 when all do
FirstBadTime(rows) ==
    IF \A i \in 1..Len(rows) : JsonTimeOK(rows[i][1]) THEN 0
    ELSE CHOOSE i \in 1..Len(rows) :
             ~JsonTimeOK(rows[i][1]) /\ \A j \in 1..(i - 1) : JsonTimeOK(rows[j][1])

\* lines 914-935: the table
Tabulate(shortened) == stdout' = <<Table(shortened)>> /\ allRows' = shortened /\ Finish

\* lines 865-935 without the test of line 915
OutputTableAlways(rows) ==
    IF cfg.argsOutputCSV THEN stdout' = Lines(CsvOutput(rows)) /\ allRows' = rows /\ Finish
    ELSE IF cfg.argsOutputHTML
         THEN stdout' = Lines(HtmlOutput(rows)) /\ allRows' = rows /\ Finish
    ELSE IF cfg.argsOutputJSON /\ FirstBadTime(rows) # 0
         THEN JsonTimeError(rows[FirstBadTime(rows)][1]) /\ allRows' = rows
    ELSE IF cfg.argsOutputJSON
         THEN stdout' = Lines(JsonOutput(rows)) /\ allRows' = rows /\ Finish
    ELSE Tabulate(shortenFileName(rows, MaxWidth(cfg.argsLongFileNames,
                                                 cfg.argsLongWidth, termWidth)))

\* lines 865-935: the output of the rows
Output(rows) ==
    IF cfg.argsOutputCSV THEN stdout' = Lines(CsvOutput(rows)) /\ allRows' = rows /\ Finish
    ELSE IF cfg.argsOutputHTML
         THEN stdout' = Lines(HtmlOutput(rows)) /\ allRows' = rows /\ Finish
    ELSE IF cfg.argsOutputJSON /\ FirstBadTime(rows) # 0
         THEN JsonTimeError(rows[FirstBadTime(rows)][1]) /\ allRows' = rows
    ELSE IF cfg.argsOutputJSON
         THEN stdout' = Lines(JsonOutput(rows)) /\ allRows' = rows /\ Finish
    ELSE IF Len(rows) > 0
         THEN Tabulate(shortenFileName(rows, MaxWidth(cfg.argsLongFileNames,
                                                      cfg.argsLongWidth, termWidth)))
    ELSE stdout' = <<>> /\ allRows' = rows /\ Finish

\* line 1225: RenderAllEntries, then the end of main
Render ==
    /\ pc = "render"
    /\ totals' = IF cfg.argsTotals
                 THEN Aggregate(allEntries, cfg.argsMebibytes, cfg.argsOnlyFiles,
                                cfg.argsOnlyDirs, cfg.argsOnlyLinks)
                 ELSE ZeroAggregate
    /\ Output(AllRows(allEntries, cfg.argsCommas, cfg.argsMebibytes, cfg.argsMilliseconds,
                      cfg.argsTotals, cfg.argsOnlyFiles, cfg.argsOnlyDirs,
                      cfg.argsOnlyLinks, zone))
    /\ UNCHANGED <<env, allFilenames, idx, allEntries, statCalls>>

Next ==
    \/ Validate
    \/ ReadList
    \/ GetFileInfoStart
    \/ GetFileInfoStep
    \/ GetFileInfoReturn
    \/ Sort
    \/ Render

Init == InitRun(MainInputs)

Spec == Init /\ [][Next]_vars

\* main is one thread of control that runs each of its steps to its end: a
\* step that can be taken is taken
InitTerminating == InitRun(SourceInputs \cup RejectedInputs)

SpecTerminating == InitTerminating /\ [][Next]_vars /\ WF_vars(Next)

InitFilter == InitRun(FilterInputs)

SpecFilter == InitFilter /\ [][Next]_vars

(***************************************************************************)
(* The sort functions on their own: each is applied to an entry sequence   *)
(* in both directions.                                                     *)
(***************************************************************************)

SortNames == {B("a"), B("A"), B("ab"), B("b"), B(".h"), B("c"), NameEAcute, NameCapitalEAcute}

\* the entry GetFileInfo makes of the path fname
EntryOf(fsys, fname) ==
    FileStat(fname, fsys[fname].size, fsys[fname].modTime, FileTypeOf(fsys[fname].mode))

\* the entry sequence of the paths in names
EntriesOf(fsys, names) == [i \in 1..Len(names) |-> EntryOf(fsys, names[i])]

InitSort ==
    /\ cfg = Default
    /\ zone = EDT
    /\ termWidth = 120
    /\ fs = World(EDT)
    /\ src = Stdin(<<>>)
    /\ pc = "sorting"
    /\ allFilenames = <<>>
    /\ idx = 0
    /\ allEntries = <<>>
    /\ statCalls = <<>>
    /\ stdout = <<>>
    /\ allRows = <<>>
    /\ stderr = <<>>
    /\ exitCode = -1
    /\ cause = ""
    /\ totals = ZeroAggregate
    /\ sortIn \in {EntriesOf(World(EDT), names) :
                      names \in {<<>>} \cup SeqsUpTo(SortNames, MaxSortLen)}
    /\ sortOut = NoResult

\* the result of the sort function key on sortIn is recorded, once for each
\* direction
Sorted(key, ascending, sorted) ==
    /\ pc = "sorting"
    /\ sortOut.key \in {"", key}
    /\ ascending \notin DOMAIN sortOut.result
    /\ sortOut' = [key |-> key, result |-> (ascending :> sorted) @@ sortOut.result]
    /\ UNCHANGED <<cfg, zone, termWidth, fs, src, sortIn, pc, allFilenames, idx, allEntries,
                   statCalls, stdout, allRows, stderr, exitCode, cause, totals>>

CallSortSize == \E ascending \in BOOLEAN : Sorted("sortSize", ascending, sortSize(sortIn, ascending))

CallSortModTime ==
    \E ascending \in BOOLEAN : Sorted("sortModTime", ascending, sortModTime(sortIn, ascending))

CallSortName == \E ascending \in BOOLEAN : Sorted("sortName", ascending, sortName(sortIn, ascending))

CallSortNameCaseInsensitive ==
    \E ascending \in BOOLEAN :
        Sorted("sortNameCaseInsensitive", ascending, sortNameCaseInsensitive(sortIn, ascending))

NextSort ==
    \/ CallSortSize
    \/ CallSortModTime
    \/ CallSortName
    \/ CallSortNameCaseInsensitive

SpecSort == InitSort /\ [][NextSort]_vars

(***************************************************************************)
(* Properties of GetFileInfo                                               *)
(***************************************************************************)

\* the FullName of each entry, in order
Names(entries) == [i \in 1..Len(entries) |-> entries[i].FullName]

StatSucceeds(path) == path \in DOMAIN fs

\* -ed unset, or neither the last element of the path starts with a dot nor
\* the path has an element after a "/" that does
PassesDotExclusion(path) ==
    cfg.argsExcludeDot => PathBase(path)[1] # Ord(".") /\ ~Contains(path, B("/."))

PassesExcludeRegex(path) ==
    cfg.argsExcludeRE # <<>> => ~RegexpMatch(cfg.argsExcludeRE, path)

PassesIncludeRegex(path) ==
    cfg.argsIncludeRE # <<>> => RegexpMatch(cfg.argsIncludeRE, path)

\* the modification time is within the bounds the code computes for -do and -dn
PassesDateRange(path) ==
    /\ cfg.argsDateOlder # <<>> =>
          ~After(fs[path].modTime, roundToLocalTime(wantOlder, cfg.argsDateOlder, zone).t)
    /\ cfg.argsDateNewer # <<>> =>
          ~Before(fs[path].modTime, roundToLocalTime(wantNewer, cfg.argsDateNewer, zone).t)

PassesSizeRange(path) ==
    fs[path].mode = "regular" =>
        /\ cfg.argsSizeSmaller > 0 => fs[path].size <= cfg.argsSizeSmaller
        /\ cfg.argsSizeLarger > 0 => fs[path].size >= cfg.argsSizeLarger

Survives(path) ==
    /\ StatSucceeds(path)
    /\ PassesDotExclusion(path)
    /\ PassesExcludeRegex(path)
    /\ PassesIncludeRegex(path)
    /\ PassesDateRange(path)
    /\ PassesSizeRange(path)

\* C1: when GetFileInfo has returned, there is an entry for an input path if
\* and only if os.Lstat succeeded on it and it passes the dot exclusion, the
\* exclude regex, the include regex, the date range and the size range, a
\* filter that is not set rejecting nothing.
EntryIffStatAndFilters ==
    pc = "sort" =>
        \A i \in 1..Len(allFilenames) :
            (\E k \in 1..Len(allEntries) : allEntries[k].FullName = allFilenames[i])
            <=> Survives(allFilenames[i])

\* GetFileInfo has returned an entry for a path with every filter set
EntryWithAllFiltersWitness ==
    /\ pc = "sort"
    /\ cfg.argsExcludeDot
    /\ cfg.argsExcludeRE # <<>>
    /\ cfg.argsIncludeRE # <<>>
    /\ cfg.argsDateOlder # <<>>
    /\ cfg.argsDateNewer # <<>>
    /\ cfg.argsSizeSmaller > 0
    /\ cfg.argsSizeLarger > 0
    /\ Len(allEntries) = 1

NoSortFlag == \A f \in SortFlags : ~cfg[f]

\* the subsequence of paths of the occurrences that survive
Survivors(paths) == SelectSeq(paths, Survives)

\* the entry is rendered under -if, -id, -il
Rendered(e) ==
    /\ cfg.argsOnlyFiles => e.FileType = "F"
    /\ cfg.argsOnlyDirs => e.FileType = "D"
    /\ cfg.argsOnlyLinks => e.FileType = "L"

\* the rows of entries among rows: those with a modification time
IsEntryRow(row) == Len(row) = 4 /\ row[1] # <<>>

RowNames(rows) == [i \in 1..Len(rows) |-> rows[i][4]]

\* shown is the name full, whole or cut by shortenFileName to a shorter
\* string that begins like it
ShowsName(shown, full) ==
    \/ shown = full
    \/ Len(shown) < Len(full) /\ SubSeq(shown, 1, 3) = SubSeq(full, 1, 3)

\* the Name column of rows shows the names, one row for each, in order
ShowNames(rows, names) ==
    /\ Len(rows) = Len(names)
    /\ \A i \in 1..Len(names) : ShowsName(rows[i][4], names[i])

\* C2: the entries collected so far are, in order, the occurrences of the
\* input paths examined so far that survive; and with no sort flag set the
\* entries after SortAllEntries, and the rows of the entries that are
\* rendered, are still in that order.
CollectionKeepsInputOrder ==
    /\ pc \in {"collect", "sort"} =>
          Names(allEntries) = Survivors(SubSeq(allFilenames, 1, idx))
    /\ pc \in {"render", "done"} /\ NoSortFlag =>
          Names(allEntries) = Survivors(allFilenames)
    /\ pc = "done" /\ NoSortFlag =>
          ShowNames(SelectSeq(allRows, IsEntryRow), Names(SelectSeq(allEntries, Rendered)))

\* a run without sort flag has rendered two paths given in descending order,
\* and a third between them was filtered out
InputOrderWitness ==
    /\ pc = "done"
    /\ NoSortFlag
    /\ allFilenames = <<B("b"), B("nope"), B("a")>>
    /\ RowNames(SelectSeq(allRows, IsEntryRow)) = <<B("b"), B("a")>>

(***************************************************************************)
(* Properties of the sort functions                                        *)
(***************************************************************************)

Reverse(seq) == [i \in 1..Len(seq) |-> seq[Len(seq) + 1 - i]]

Sizes(entries) == [i \in 1..Len(entries) |-> entries[i].Size]

\* seq without the elements equal to the one before them
RECURSIVE Runs(_)
Runs(seq) ==
    IF Len(seq) <= 1 THEN seq
    ELSE IF seq[1] = seq[2] THEN Runs(Tail(seq))
    ELSE <<seq[1]>> \o Runs(Tail(seq))

\* the entries of the given size, in their order in entries
SizeGroup(entries, size) == SelectSeq(entries, LAMBDA e : e.Size = size)

\* the entries of equal size are in ascending order of FullName
TiesNameAscending(entries) ==
    \A i, j \in 1..Len(entries) :
        i < j /\ entries[i].Size = entries[j].Size =>
            ~StrLess(entries[j].FullName, entries[i].FullName)

\* seq is strictly increasing
Increasing(seq) == \A i, j \in 1..Len(seq) : i < j => seq[i] < seq[j]

\* a and b have the same elements, each as many times
SameElements(a, b) ==
    /\ Len(a) = Len(b)
    /\ \A x \in Range(a) \cup Range(b) :
          Cardinality({i \in 1..Len(a) : a[i] = x}) = Cardinality({i \in 1..Len(b) : b[i] = x})

BothDirections(key) == sortOut.key = key /\ DOMAIN sortOut.result = BOOLEAN

\* C3: sortSize descending puts the groups of equal size in the reverse of
\* the order sortSize ascending puts them in (sizes increasing), and each
\* group is the same sequence in both, its names ascending.
SizeSortReversesGroupsOnly ==
    BothDirections("sortSize") =>
        /\ SameElements(sortOut.result[TRUE], sortIn)
        /\ SameElements(sortOut.result[FALSE], sortIn)
        /\ Increasing(Runs(Sizes(sortOut.result[TRUE])))
        /\ Runs(Sizes(sortOut.result[FALSE])) = Reverse(Runs(Sizes(sortOut.result[TRUE])))
        /\ \A size \in Range(Sizes(sortIn)) :
              SizeGroup(sortOut.result[FALSE], size) = SizeGroup(sortOut.result[TRUE], size)
        /\ TiesNameAscending(sortOut.result[TRUE])
        /\ TiesNameAscending(sortOut.result[FALSE])

\* sizes 30, 10, 10 with the names of the tie given in descending order
SizeSortTieWitness ==
    /\ BothDirections("sortSize")
    /\ Names(sortIn) = <<B("b"), B("a"), B("A")>>
    /\ Names(sortOut.result[TRUE]) = <<B("A"), B("a"), B("b")>>
    /\ Names(sortOut.result[FALSE]) = <<B("b"), B("A"), B("a")>>

(***************************************************************************)
(* Properties of the date filter                                           *)
(***************************************************************************)

\* the calendar day of the instant t in the zone at offset loc, as YYYYMMDD
LocalDay(t, loc) == Civil(t, loc).year * 10000 + Civil(t, loc).month * 100 + Civil(t, loc).day

\* only the date filters can reject a path os.Lstat succeeds on
OnlyDateFilters ==
    /\ ~cfg.argsExcludeDot
    /\ cfg.argsExcludeRE = <<>>
    /\ cfg.argsIncludeRE = <<>>
    /\ cfg.argsSizeSmaller = 0
    /\ cfg.argsSizeLarger = 0

HasEntry(path) == \E k \in 1..Len(allEntries) : allEntries[k].FullName = path

\* C4: with only -do D set, in every zone, a path os.Lstat succeeds on has an
\* entry if and only if its modification time in local time is on day D or
\* on an earlier day.
OlderBoundIsEndOfDay ==
    pc = "sort" /\ OnlyDateFilters /\ cfg.argsDateOlder # <<>> /\ cfg.argsDateNewer = <<>> =>
        \A i \in 1..Len(allFilenames) :
            StatSucceeds(allFilenames[i]) =>
                (HasEntry(allFilenames[i])
                 <=> LocalDay(fs[allFilenames[i]].modTime, zone) <= Atoi(cfg.argsDateOlder))

\* C5: with only -dn D set, in every zone, a path os.Lstat succeeds on has an
\* entry if and only if its modification time in local time is on day D or
\* on a later day.
NewerBoundIsStartOfDay ==
    pc = "sort" /\ OnlyDateFilters /\ cfg.argsDateNewer # <<>> /\ cfg.argsDateOlder = <<>> =>
        \A i \in 1..Len(allFilenames) :
            StatSucceeds(allFilenames[i]) =>
                (HasEntry(allFilenames[i])
                 <=> LocalDay(fs[allFilenames[i]].modTime, zone) >= Atoi(cfg.argsDateNewer))

(***************************************************************************)
(* Properties of the totals                                                *)
(***************************************************************************)

RECURSIVE SumOfSizes(_)
SumOfSizes(entries) ==
    IF entries = <<>> THEN 0 ELSE Head(entries).Size + SumOfSizes(Tail(entries))

\* the rendered entries of the given type
OfType(type) == SelectSeq(allEntries, LAMBDA e : Rendered(e) /\ e.FileType = type)

\* the aggregate over the rendered entries whose total file size is total
AggregateWithTotal(total) ==
    [totalFileSize |-> total,
     totalFileCount |-> Len(OfType("F")),
     totalDirCount |-> Len(OfType("D")),
     totalSymLinkCount |-> Len(OfType("L")),
     averageFileSize |-> IF Len(OfType("F")) = 0 THEN 0 ELSE total \div Len(OfType("F")),
     averageFilesPerDir |-> IF Len(OfType("D")) = 0 THEN 0
                            ELSE Len(OfType("F")) \div Len(OfType("D"))]

\* the rows of the totals among the rows rendered
TotalsRowsOf(rows) == SelectSeq(rows, LAMBDA row : Len(row) = 4 /\ row[1] = <<>>)

\* C6 as claimed: with -t the total size is the sum of the sizes of the
\* rendered entries of type F, the counts are those of the entries of type F,
\* D and L, and the averages are total div file count and file count div
\* directory count, 0 without files and without directories.
TotalsAreSumsOfBytes ==
    pc = "done" /\ cfg.argsTotals => totals = AggregateWithTotal(SumOfSizes(OfType("F")))

\* C6 as amended: as above, but with -m the total size is the sum divided by
\* 1048576, and the average file size is computed from that quotient; the
\* first row of the totals shows the total size.
TotalsAreSumsInShownUnit ==
    pc = "done" /\ cfg.argsTotals =>
        /\ totals = AggregateWithTotal(IF cfg.argsMebibytes
                                       THEN SumOfSizes(OfType("F")) \div 1048576
                                       ELSE SumOfSizes(OfType("F")))
        /\ ~cfg.argsCommas => TotalsRowsOf(allRows)[1][2] = Itoa(totals.totalFileSize)

\* files of sizes 10, 20, 30 and two directories
TotalsExampleWitness ==
    /\ pc = "done"
    /\ cfg.argsTotals
    /\ Sizes(OfType("F")) = <<10, 20, 30>>
    /\ Len(OfType("D")) = 2
    /\ totals = [totalFileSize |-> 60, totalFileCount |-> 3, totalDirCount |-> 2,
                 totalSymLinkCount |-> 0, averageFileSize |-> 20, averageFilesPerDir |-> 1]

(***************************************************************************)
(* Properties of the size filter                                           *)
(***************************************************************************)

\* the path passes every filter but, perhaps, the size range
SurvivesButSize(path) ==
    /\ StatSucceeds(path)
    /\ PassesDotExclusion(path)
    /\ PassesExcludeRegex(path)
    /\ PassesIncludeRegex(path)
    /\ PassesDateRange(path)

\* C7: a path that is not a regular file and passes the other filters has an
\* entry, whatever the size bounds and its size are.
SizeFilterOnlyOnFiles ==
    pc = "sort" =>
        \A i \in 1..Len(allFilenames) :
            SurvivesButSize(allFilenames[i]) /\ fs[allFilenames[i]].mode # "regular" =>
                HasEntry(allFilenames[i])

\* a directory of size 40 has an entry under -szs 20 -szl 10
DirectoryBeyondBoundWitness ==
    /\ pc = "sort"
    /\ cfg.argsSizeSmaller = 20
    /\ cfg.argsSizeLarger = 10
    /\ allFilenames = <<B("d")>>
    /\ fs[B("d")].size = 40
    /\ HasEntry(B("d"))

\* C8: a regular file that passes the other filters has no entry if and only
\* if -szs is above 0 and below its size, or -szl is above 0 and above its
\* size; a size equal to a bound passes.
SizeBoundsInclusive ==
    pc = "sort" =>
        \A i \in 1..Len(allFilenames) :
            SurvivesButSize(allFilenames[i]) /\ fs[allFilenames[i]].mode = "regular" =>
                (~HasEntry(allFilenames[i])
                 <=> \/ cfg.argsSizeSmaller > 0 /\ fs[allFilenames[i]].size > cfg.argsSizeSmaller
                     \/ cfg.argsSizeLarger > 0 /\ fs[allFilenames[i]].size < cfg.argsSizeLarger)

\* a file of size 20 has an entry under -szs 20, and no lower bound is set
SizeAtBoundWitness ==
    /\ pc = "sort"
    /\ cfg.argsSizeSmaller = 20
    /\ cfg.argsSizeLarger = 0
    /\ allFilenames = <<B("ab")>>
    /\ fs[B("ab")].size = 20
    /\ HasEntry(B("ab"))

(***************************************************************************)
(* Properties of the fatal exits                                           *)
(***************************************************************************)

\* two sort flags, -t with a structured format, or -long with -longwidth
ExclusiveFlagsSet ==
    \/ Cardinality({f \in SortFlags : cfg[f]}) >= 2
    \/ cfg.argsTotals /\ (cfg.argsOutputCSV \/ cfg.argsOutputHTML \/ cfg.argsOutputJSON)
    \/ cfg.argsLongFileNames /\ cfg.argsLongWidth > 0

\* the process has exited with code 2 and has neither read the path list, nor
\* called os.Lstat, nor written to standard output
ExitedTwoBeforeAnyWork ==
    /\ pc = "exit"
    /\ exitCode = 2
    /\ allFilenames = <<>>
    /\ statCalls = <<>>
    /\ stdout = <<>>

\* C9 as claimed: with such flags the first step of main exits with 2 before
\* any work.
ExclusiveFlagsExitTwo == ExclusiveFlagsSet /\ pc # "main" => ExitedTwoBeforeAnyWork

\* C9 as amended: with such flags and without -v the first step of main exits
\* with 2 before any work.
ExclusiveFlagsExitTwoUnlessVersion ==
    ExclusiveFlagsSet /\ ~cfg.argsVersion /\ pc # "main" => ExitedTwoBeforeAnyWork

\* -t with -oj has exited with 2
TotalsWithJsonWitness ==
    /\ cfg.argsTotals
    /\ cfg.argsOutputJSON
    /\ ~cfg.argsVersion
    /\ ExitedTwoBeforeAnyWork

\* the fatal exits for an error of configuration
ConfigurationErrors ==
    {"sortConflict", "onlyConflict", "outputConflict", "totalsStructured", "longConflict",
     "dateRange", "sizeRange", "excludeRegex", "includeRegex", "dateParse", "invalidDate",
     "emptyList", "globNoMatch"}

\* the two exits for a date that does not parse are one condition
SameCondition(a, b) == a = b \/ {a, b} = {"dateParse", "invalidDate"}

\* C10: the exit code of a configuration error is not 0 and is the code of
\* no other configuration error.
FatalCodesDistinct ==
    pc = "exit" /\ cause \in ConfigurationErrors =>
        /\ exitCode # 0
        /\ \A other \in ConfigurationErrors :
              ~SameCondition(other, cause) => FatalCode(other) # exitCode

(***************************************************************************)
(* Properties of the two output streams                                    *)
(***************************************************************************)

\* C11: standard output holds something only in a run that has returned from
\* main; a run that has ended with a fatal exit has written nothing to it.
StdoutOnlyOnNormalEnd == stdout # <<>> => pc = "done"

DefaultFormat == ~cfg.argsOutputCSV /\ ~cfg.argsOutputHTML /\ ~cfg.argsOutputJSON

\* C12 as claimed: in the default format, whatever the other flags, a run
\* without entry has written nothing to standard output.
NoEntryNoTable == pc = "done" /\ DefaultFormat /\ allEntries = <<>> => stdout = <<>>

\* C12 as amended: in the default format a run without entry has written
\* nothing to standard output unless -t is set; with -t it has written one
\* table, of the rows of the totals.
NoEntryNoTableUnlessTotals ==
    pc = "done" /\ DefaultFormat /\ allEntries = <<>> =>
        IF cfg.argsTotals
        THEN /\ Len(stdout) = 1
             /\ stdout[1].kind = "table"
             /\ \A i \in 1..Len(stdout[1].rows) : ~IsEntryRow(stdout[1].rows[i])
        ELSE stdout = <<>>

\* the only path does not exist, -t is not set, and nothing was written
NoEntryWitness ==
    /\ pc = "done"
    /\ DefaultFormat
    /\ ~cfg.argsTotals
    /\ allFilenames = <<Missing>>
    /\ allEntries = <<>>
    /\ stdout = <<>>

(***************************************************************************)
(* Properties of the errors of GetFileInfo                                 *)
(***************************************************************************)

\* the path passes the filters on its name, so that os.Lstat is called on it
StatReached(path) ==
    PassesDotExclusion(path) /\ PassesExcludeRegex(path) /\ PassesIncludeRegex(path)

StatFails(path) == StatReached(path) /\ ~StatSucceeds(path)

\* the paths of the error lines of os.Lstat on standard error, in order
LstatErrors == [i \in 1..Len(SelectSeq(stderr, LAMBDA m : m.msg = "lstat")) |->
                   SelectSeq(stderr, LAMBDA m : m.msg = "lstat")[i].arg]

\* C13: an error of os.Lstat does not end the run: os.Lstat has been called
\* on every path examined so far that passes the name filters, those after a
\* failing path included; no entry is of a path it fails on; standard error
\* has one line for each failing occurrence without -q and none with -q; and
\* the loop ends only at the end of the list.
StatFailureSkipsPathOnly ==
    /\ pc \in {"collect", "sort", "render", "done"} =>
          /\ statCalls = SelectSeq(SubSeq(allFilenames, 1, idx), StatReached)
          /\ LstatErrors = IF cfg.argsQuiet THEN <<>>
                           ELSE SelectSeq(SubSeq(allFilenames, 1, idx), StatFails)
          /\ \A k \in 1..Len(allEntries) : StatSucceeds(allEntries[k].FullName)
    /\ pc \in {"sort", "render", "done"} => idx = Len(allFilenames)
    /\ pc = "exit" /\ cause # "jsonTime" => idx = 0

\* a path that does not exist between two that do: one error line, all three
\* paths handed to os.Lstat, two entries
StatFailureWitness ==
    /\ pc = "done"
    /\ ~cfg.argsQuiet
    /\ allFilenames = <<B("b"), Missing, B("a")>>
    /\ statCalls = <<B("b"), Missing, B("a")>>
    /\ LstatErrors = <<Missing>>
    /\ Names(allEntries) = <<B("b"), B("a")>>

\* a regular expression that is set does not compile
BadRegexGiven ==
    \/ cfg.argsExcludeRE # <<>> /\ ~RegexpCompileOK(cfg.argsExcludeRE)
    \/ cfg.argsIncludeRE # <<>> /\ ~RegexpCompileOK(cfg.argsIncludeRE)

\* a date that is set is not a date in the form YYYYMMDD
BadDateGiven ==
    \/ cfg.argsDateNewer # <<>> /\ ~ParseDate(cfg.argsDateNewer).ok
    \/ cfg.argsDateOlder # <<>> /\ ~ParseDate(cfg.argsDateOlder).ok

\* the messages on standard error about a regular expression or a date
FilterErrors ==
    SelectSeq(stderr, LAMBDA m : m.msg \in {"excludeRegex", "includeRegex", "invalidDate",
                                            "dateParse"})

\* the path list comes from the patterns of -f
UsesGlob == Len(cfg.argsFilenames) > 0

\* the path list is empty: no line on standard input or in the file that was
\* opened, or no match of the patterns of -f
EmptyPathList ==
    IF UsesGlob THEN GlobbedNames(src, cfg.argsFilenames) = {}
    ELSE src.lines = <<>> /\ ~(Len(cfg.args) > 0 /\ src.openErr)

\* the run gets to the test of the regular expressions and the dates: -v is
\* not given, and either ValidateArgs parses the two dates of a pair and one
\* of them fails (lines 1017-1026), or ValidateArgs returns, the path list is
\* read and is not empty, and GetFileInfo is called (lines 660-689)
FilterIsChecked ==
    /\ ~cfg.argsVersion
    /\ \/ MainValidateArgs(cfg) = "dateParse"
       \/ /\ MainValidateArgs(cfg) = ""
          /\ ~(~UsesGlob /\ Len(cfg.args) > 0 /\ src.openErr)
          /\ ~EmptyPathList

\* with a regular expression that does not compile or a date that does not
\* parse, the loop over the paths is never entered: no path is examined,
\* os.Lstat is not called, no error of a path is reported, nothing is written
\* to standard output, and the run ends with an exit code that is not 0
BadFilterEndsBeforeFirstPath ==
    /\ pc \in {"main", "list", "setup", "exit"}
    /\ idx = 0
    /\ statCalls = <<>>
    /\ LstatErrors = <<>>
    /\ stdout = <<>>
    /\ pc = "exit" => exitCode # 0

\* C14 as claimed: with a regular expression that does not compile or a date
\* that does not parse, the loop over the paths is never entered and the run
\* ends with an exit code that is not 0, the malformed value being reported,
\* once, whatever the flags and the path list are.
BadFilterDetectedOnce ==
    BadRegexGiven \/ BadDateGiven =>
        /\ BadFilterEndsBeforeFirstPath
        /\ pc = "exit" => Len(FilterErrors) = 1

\* C14 as amended: with a regular expression that does not compile or a date
\* that does not parse, the loop over the paths is never entered and the run
\* ends with an exit code that is not 0; the malformed value is reported, and
\* exactly once, by the run that gets to its test (FilterIsChecked), and not
\* at all by a run that ends before: with -v, with another exit of
\* ValidateArgs, with a list file that does not open or with an empty path
\* list.
BadFilterDetectedOnceWhenChecked ==
    BadRegexGiven \/ BadDateGiven =>
        /\ BadFilterEndsBeforeFirstPath
        /\ pc # "exit" => FilterErrors = <<>>
        /\ pc = "exit" => Len(FilterErrors) = (IF FilterIsChecked THEN 1 ELSE 0)

\* the include regex does not compile: the process has ended after the list
\* of two paths was read, without a call of os.Lstat
BadRegexWitness ==
    /\ pc = "exit"
    /\ FilterIsChecked
    /\ cause = "includeRegex"
    /\ exitCode = 4
    /\ Len(allFilenames) = 2
    /\ Len(FilterErrors) = 1
    /\ statCalls = <<>>

(***************************************************************************)
(* Properties of the ranges ValidateArgs accepts                           *)
(***************************************************************************)

\* ValidateArgs is called and none of its tests before the ranges exits
RangesAreTested ==
    /\ ~cfg.argsVersion
    /\ Cardinality({f \in SortFlags : cfg[f]}) <= 1
    /\ Cardinality({f \in OnlyFlags : cfg[f]}) <= 1
    /\ Cardinality({f \in OutputFlags : cfg[f]}) <= 1
    /\ ~(cfg.argsTotals /\ \E f \in OutputFlags : cfg[f])
    /\ cfg.argsDateNewer # <<>> /\ cfg.argsDateOlder # <<>> =>
          ParseDate(cfg.argsDateNewer).ok /\ ParseDate(cfg.argsDateOlder).ok

\* both dates are given and -dn is a later day than -do
DateRangeInverted ==
    /\ cfg.argsDateNewer # <<>>
    /\ cfg.argsDateOlder # <<>>
    /\ Atoi(cfg.argsDateNewer) > Atoi(cfg.argsDateOlder)

SizeRangeInverted == cfg.argsSizeSmaller > 0 /\ cfg.argsSizeSmaller < cfg.argsSizeLarger

\* C15: once main has called ValidateArgs, the run has ended with 2 for its
\* date range if and only if both dates are given and -dn is later than -do,
\* and, the date range passing, with 2 for its size range if and only if
\* -szs is above 0 and below -szl; equal bounds pass.
InvertedRangesRejected ==
    pc # "main" /\ RangesAreTested =>
        /\ DateRangeInverted <=> pc = "exit" /\ cause = "dateRange" /\ exitCode = 2
        /\ ~DateRangeInverted =>
              (SizeRangeInverted <=> pc = "exit" /\ cause = "sizeRange" /\ exitCode = 2)
        /\ ~DateRangeInverted /\ ~SizeRangeInverted /\ pc = "exit" =>
              cause \notin {"dateRange", "sizeRange", "dateParse"}

\* -dn 20190326 -do 20190325 has ended the run with 2
InvertedDatesWitness ==
    /\ pc = "exit"
    /\ cfg.argsDateNewer = D26
    /\ cfg.argsDateOlder = D25
    /\ cause = "dateRange"
    /\ exitCode = 2

(***************************************************************************)
(* Properties of the two regex filters                                     *)
(***************************************************************************)

\* the path passes every filter but, perhaps, the two regular expressions
SurvivesButRegex(path) ==
    /\ StatSucceeds(path)
    /\ PassesDotExclusion(path)
    /\ PassesDateRange(path)
    /\ PassesSizeRange(path)

\* the exclude regex applied first, then the include regex
ExcludeThenInclude(path) ==
    IF cfg.argsExcludeRE # <<>> /\ RegexpMatch(cfg.argsExcludeRE, path) THEN FALSE
    ELSE IF cfg.argsIncludeRE # <<>> /\ ~RegexpMatch(cfg.argsIncludeRE, path) THEN FALSE
    ELSE TRUE

\* the include regex applied first, then the exclude regex
IncludeThenExclude(path) ==
    IF cfg.argsIncludeRE # <<>> /\ ~RegexpMatch(cfg.argsIncludeRE, path) THEN FALSE
    ELSE IF cfg.argsExcludeRE # <<>> /\ RegexpMatch(cfg.argsExcludeRE, path) THEN FALSE
    ELSE TRUE

\* C16: a path that passes the other filters has an entry if and only if it
\* does not match the exclude regex, when set, and matches the include regex,
\* when set; a path that matches both has none; and the paths with an entry
\* are those that pass the two tests applied in either order.
RegexFiltersConjunctive ==
    pc = "sort" =>
        \A i \in 1..Len(allFilenames) :
            SurvivesButRegex(allFilenames[i]) =>
                /\ HasEntry(allFilenames[i])
                   <=> /\ cfg.argsExcludeRE # <<>> => ~RegexpMatch(cfg.argsExcludeRE, allFilenames[i])
                       /\ cfg.argsIncludeRE # <<>> => RegexpMatch(cfg.argsIncludeRE, allFilenames[i])
                /\ HasEntry(allFilenames[i]) <=> ExcludeThenInclude(allFilenames[i])
                /\ HasEntry(allFilenames[i]) <=> IncludeThenExclude(allFilenames[i])

\* the path ab matches the exclude regex b and the include regex ^a, passes
\* the other filters and has no entry
MatchesBothWitness ==
    /\ pc = "sort"
    /\ cfg.argsExcludeRE = B("b")
    /\ cfg.argsIncludeRE = B("^a")
    /\ allFilenames = <<B("ab")>>
    /\ SurvivesButRegex(B("ab"))
    /\ RegexpMatch(cfg.argsExcludeRE, B("ab"))
    /\ RegexpMatch(cfg.argsIncludeRE, B("ab"))
    /\ ~HasEntry(B("ab"))

(***************************************************************************)
(* Properties of the sort functions: determinism and modification time     *)
(***************************************************************************)

DistinctNames(entries) ==
    \A i, j \in 1..Len(entries) : i # j => entries[i].FullName # entries[j].FullName

DistinctLowerNames(entries) ==
    \A i, j \in 1..Len(entries) :
        i # j => ToLower(entries[i].FullName) # ToLower(entries[j].FullName)

\* the orders in which the entries of seq can be given
InputOrders(seq) == {q \in [1..Len(seq) -> Range(seq)] : SameElements(q, seq)}

\* every order of the entries of sortIn sorts to the results recorded for key
OrderIsDetermined(key) ==
    \A ascending \in DOMAIN sortOut.result :
        \A q \in InputOrders(sortIn) : SortSlice(q, key, ascending) = sortOut.result[ascending]

SortKeys == {"sortSize", "sortModTime", "sortName", "sortNameCaseInsensitive"}

\* C17 as claimed: for each of the four sort functions and each direction,
\* entries with pairwise distinct FullName sort to the same sequence in
\* whatever order they are given.
SortedOrderDeterminedBySet ==
    sortOut.key \in SortKeys /\ DistinctNames(sortIn) => OrderIsDetermined(sortOut.key)

\* C17 as amended: the same for sortSize, sortModTime and sortName; and for
\* sortNameCaseInsensitive when the lower-cased names are pairwise distinct.
SortedOrderDeterminedByKey ==
    /\ sortOut.key \in SortKeys \ {"sortNameCaseInsensitive"} /\ DistinctNames(sortIn) =>
          OrderIsDetermined(sortOut.key)
    /\ sortOut.key = "sortNameCaseInsensitive" /\ DistinctLowerNames(sortIn) =>
          OrderIsDetermined(sortOut.key)

\* three entries of equal time or size pairwise, given in descending order of
\* name, sorted by modification time in both directions
DeterminedOrderWitness ==
    /\ BothDirections("sortModTime")
    /\ Names(sortIn) = <<B("c"), B("a"), B("A")>>
    /\ Cardinality(InputOrders(sortIn)) = 6
    /\ OrderIsDetermined("sortModTime")

\* the instant t is the instant u or an earlier one, to the nanosecond
NotLaterThan(t, u) == t.sec < u.sec \/ (t.sec = u.sec /\ t.nsec <= u.nsec)

\* C18: sortModTime ascending puts no entry after one of a later modification
\* time, descending none after one of an earlier time, the times compared to
\* the nanosecond; entries of equal time are in ascending order of FullName
\* in both directions; the result holds the entries given.
ModTimeSortOrdersByExactTime ==
    sortOut.key = "sortModTime" =>
        \A ascending \in DOMAIN sortOut.result :
            /\ SameElements(sortOut.result[ascending], sortIn)
            /\ \A i, j \in 1..Len(sortIn) :
                  i < j =>
                      /\ NotLaterThan(
                            sortOut.result[ascending][IF ascending THEN i ELSE j].ModTime,
                            sortOut.result[ascending][IF ascending THEN j ELSE i].ModTime)
                      /\ sortOut.result[ascending][i].ModTime = sortOut.result[ascending][j].ModTime =>
                            ~StrLess(sortOut.result[ascending][j].FullName,
                                     sortOut.result[ascending][i].FullName)

\* two entries of one time and one half a second later
ModTimeSortWitness ==
    /\ BothDirections("sortModTime")
    /\ Names(sortIn) = <<B("a"), B("c"), B("A")>>
    /\ Names(sortOut.result[TRUE]) = <<B("A"), B("a"), B("c")>>
    /\ Names(sortOut.result[FALSE]) = <<B("c"), B("A"), B("a")>>

(***************************************************************************)
(* Properties of the structured formats and of -m                          *)
(***************************************************************************)

\* the bytes of the lines on standard output
StdoutLines == [i \in 1..Len(stdout) |-> stdout[i].bytes]

QuotedHeader ==
    <<34>> \o B("Mod Time") \o <<34>> \o B(",") \o <<34>> \o B("Size") \o <<34>> \o B(",")
    \o <<34>> \o B("Type") \o <<34>> \o B(",") \o <<34>> \o B("Name") \o <<34>>

HtmlSkeleton ==
    <<B("<!DOCTYPE html>"), B("<html>"), B("<body>"),
      B("<table border='1' cellpadding='3' cellspacing='3'>"),
      B("<th>Mod Time</th><th>Size</th><th>Type</th><th>Name</th>"),
      B("</table>"), B("</body>"), B("</html>")>>

\* lines is an indented JSON array with one array of four strings for each of
\* rows: an opening line, six lines for each row, a closing line
IsJsonArrayOf(lines, rows) ==
    /\ Len(lines) = 2 + 6 * Len(rows)
    /\ lines[1] = B("[")
    /\ lines[Len(lines)] = B("]")
    /\ \A i \in 1..Len(rows) :
          /\ lines[6 * i - 4] = B("    [")
          /\ \A k \in 1..4 :
                lines[6 * i - 4 + k] =
                    B("        ") \o <<34>> \o rows[i][k] \o <<34>> \o (IF k < 4 THEN B(",") ELSE <<>>)
          /\ lines[6 * i + 1] = B("    ]") \o (IF i < Len(rows) THEN B(",") ELSE <<>>)

\* the CSV output of a run without entries is the quoted header
EmptyCsvIsHeader ==
    pc = "done" /\ cfg.argsOutputCSV /\ allEntries = <<>> => StdoutLines = <<QuotedHeader>>

\* the HTML output of a run without entries is the document without row
EmptyHtmlIsSkeleton ==
    pc = "done" /\ cfg.argsOutputHTML /\ allEntries = <<>> => StdoutLines = HtmlSkeleton

\* the JSON output of a run without entries is an empty array
EmptyJsonIsEmptyArray ==
    pc = "done" /\ cfg.argsOutputJSON /\ allEntries = <<>> =>
        StdoutLines \in {<<B("[]")>>, <<B("["), B("]")>>}

\* the JSON output of a run with entries is an array of their rows
JsonIsArrayOfRows ==
    pc = "done" /\ cfg.argsOutputJSON /\ ~cfg.argsOutputCSV /\ ~cfg.argsOutputHTML
    /\ allRows # <<>> =>
        /\ Len(allRows) = Len(SelectSeq(allEntries, Rendered))
        /\ IsJsonArrayOf(StdoutLines, allRows)

\* C19: without entries the CSV output is the quoted header row, the HTML
\* output the document with the four header cells and no row, and the JSON
\* output an empty array; with entries the JSON output is an array with one
\* element of four strings for each rendered entry.
StructuredFormatsKeepSkeleton ==
    /\ EmptyCsvIsHeader
    /\ EmptyHtmlIsSkeleton
    /\ EmptyJsonIsEmptyArray
    /\ JsonIsArrayOfRows

\* s without its commas
StripCommas(str) == SelectSeq(str, LAMBDA c : c # Ord(","))

\* the commas of str are before each group of three digits from the right
CommasGroupThrees(str) ==
    \A i \in 1..Len(str) : str[i] = Ord(",") <=> (Len(str) - i) % 4 = 3

\* str shows the number n, with thousands separators under -c
ShowsNumber(str, n) ==
    IF cfg.argsCommas THEN StripCommas(str) = Itoa(n) /\ CommasGroupThrees(str)
    ELSE str = Itoa(n)

\* C20: with -m the Size column of each rendered entry shows its size divided
\* by 1048576 and truncated, the separators of -c inserted into that
\* quotient; and the first row of the totals shows the sum of the sizes in
\* bytes of the rendered entries of type F, divided by 1048576 and truncated.
MebibytesTruncateAfterSum ==
    pc = "done" /\ cfg.argsMebibytes /\ DefaultFormat =>
        /\ Len(SelectSeq(allRows, IsEntryRow)) = Len(SelectSeq(allEntries, Rendered))
        /\ \A i \in 1..Len(SelectSeq(allEntries, Rendered)) :
              ShowsNumber(SelectSeq(allRows, IsEntryRow)[i][2],
                          SelectSeq(allEntries, Rendered)[i].Size \div 1048576)
        /\ cfg.argsTotals =>
              ShowsNumber(TotalsRowsOf(allRows)[1][2], SumOfSizes(OfType("F")) \div 1048576)

\* files of 1500 MiB + 7 and 2 MiB - 5 bytes under -m -c -t: the rows show
\* 1,500 and 1, the total 1,502
MebibytesWitness ==
    /\ pc = "done"
    /\ cfg.argsMebibytes
    /\ cfg.argsCommas
    /\ cfg.argsTotals
    /\ DefaultFormat
    /\ Sizes(allEntries) = <<1500 * 1048576 + 7, 2 * 1048576 - 5>>
    /\ RowNames(SelectSeq(allRows, IsEntryRow)) = <<B("huge"), B("big2")>>
    /\ SelectSeq(allRows, IsEntryRow)[1][2] = B("1,500")
    /\ SelectSeq(allRows, IsEntryRow)[2][2] = B("1")
    /\ TotalsRowsOf(allRows)[1][2] = B("1,502")

(***************************************************************************)
(* Properties of the rendered columns                                      *)
(***************************************************************************)

\* the rows of the rendered entries and the entries they are made of
ShownEntryRows == SelectSeq(allRows, IsEntryRow)
ShownEntries == SelectSeq(allEntries, Rendered)

\* the time t to the second, then its milliseconds in three digits
ToTheMillisecond(t) == FormatSeconds(t, zone) \o B(".") \o Pad(t.nsec \div 1000000, 3)

\* C21: with -M the Mod Time column of every rendered entry is its time to
\* the second, 19 bytes, followed by '.' and the three digits of its
\* milliseconds; without -M it is the 19 bytes of its time to the second.
ModTimeHasThreeMillisecondDigits ==
    pc = "done" =>
        /\ Len(ShownEntryRows) = Len(ShownEntries)
        /\ \A i \in 1..Len(ShownEntries) :
              /\ Len(FormatSeconds(ShownEntries[i].ModTime, zone)) = 19
              /\ ShownEntryRows[i][1] =
                    IF cfg.argsMilliseconds THEN ToTheMillisecond(ShownEntries[i].ModTime)
                    ELSE FormatSeconds(ShownEntries[i].ModTime, zone)

\* the same for the times whose fraction of a second is printed by
\* Time.String in three digits or more, or is zero
ModTimeOfThreeDigitFractions ==
    pc = "done" =>
        /\ Len(ShownEntryRows) = Len(ShownEntries)
        /\ \A i \in 1..Len(ShownEntries) :
              (ShownEntries[i].ModTime.nsec = 0 \/ ShownEntries[i].ModTime.nsec % 10000000 # 0) =>
                 ShownEntryRows[i][1] =
                    IF cfg.argsMilliseconds THEN ToTheMillisecond(ShownEntries[i].ModTime)
                    ELSE FormatSeconds(ShownEntries[i].ModTime, zone)

\* the Size field of the line of CSV output written for row
CsvSizeField(row) == row[2]

\* the lines of CSV output after the header are those of allRows
CsvLinesAreRows ==
    pc = "done" /\ cfg.argsOutputCSV =>
        /\ Len(stdout) = Len(allRows) + 1
        /\ \A i \in 1..Len(allRows) :
              stdout[i + 1].bytes =
                  <<34>> \o allRows[i][1] \o <<34>> \o B(",") \o <<34>> \o CsvSizeField(allRows[i])
                  \o <<34>> \o B(",") \o <<34>> \o allRows[i][3] \o <<34>> \o B(",")
                  \o <<34>> \o allRows[i][4] \o <<34>>

\* C22: a run that writes CSV output writes no Size field with a thousands
\* separator, whatever the other flags, -c included (a run that is rejected
\* as a configuration error writes no output).
CsvSizeHasNoSeparator ==
    pc = "done" /\ cfg.argsOutputCSV =>
        \A i \in 1..Len(allRows) :
            \A k \in 1..Len(CsvSizeField(allRows[i])) : CsvSizeField(allRows[i])[k] # Ord(",")

\* -oc with -c is not a configuration error
CsvWithCommasAccepted ==
    cfg.argsOutputCSV /\ cfg.argsCommas /\ cause = "" /\ pc = "done"

\* the names are cut: the default format without -long and without -longwidth
NamesAreCut ==
    pc = "done" /\ DefaultFormat /\ ~cfg.argsLongFileNames /\ cfg.argsLongWidth = 0

\* every rendered Name is the fullName when that has at most limit bytes, and
\* otherwise another string of at most limit bytes
NamesFit(limit) ==
    /\ Len(ShownEntryRows) = Len(ShownEntries)
    /\ \A i \in 1..Len(ShownEntries) :
          IF Len(ShownEntries[i].FullName) <= limit
          THEN ShownEntryRows[i][4] = ShownEntries[i].FullName
          ELSE /\ ShownEntryRows[i][4] # ShownEntries[i].FullName
               /\ Len(ShownEntryRows[i][4]) <= limit

\* the terminal width less the margin, and 49 for a terminal narrower than 98
NameLimit == IF termWidth - 49 < 49 THEN 49 ELSE termWidth - 49

\* C23 as stated: the greatest length of a rendered Name is the terminal
\* width minus 49, for every terminal width.
NameLimitIsWidthLessMargin == NamesAreCut => NamesFit(termWidth - 49)

\* C23: the greatest length of a rendered Name is the terminal width minus
\* 49, and 49 when that difference is below 49: a longer name is cut to at
\* most that length, a name within it is rendered whole.
NameLimitIsWidthLessMarginAtLeastMargin == NamesAreCut => NamesFit(NameLimit)

\* a name of 60 bytes on a terminal of 80 columns is cut to more than 31 and
\* at most 49 bytes
NarrowTerminalWitness ==
    /\ NamesAreCut
    /\ termWidth = 80
    /\ Names(allEntries) = <<Name60>>
    /\ Len(ShownEntryRows[1][4]) > 31
    /\ Len(ShownEntryRows[1][4]) <= 49
    /\ ShownEntryRows[1][4] # Name60

(***************************************************************************)
(* Properties of the path list                                             *)
(***************************************************************************)

\* the path list has been read
ListIsRead == pc \in {"setup", "collect", "sort", "render", "done"}

\* the number of times x occurs in seq
Occurrences(seq, x) == Len(SelectSeq(seq, LAMBDA y : y = x))

\* the matches of the patterns of -f
Matches ==
    UNION {Range(src.glob[p]) : p \in DOMAIN src.glob \cap Range(Fields(cfg.argsFilenames))}

\* the path list is what was supplied: the lines of the file or of standard
\* input, one path for each line, or the matches of the patterns, each once
ListAsSupplied ==
    ListIsRead =>
        IF UsesGlob
        THEN /\ Range(allFilenames) = Matches
             /\ \A i, j \in 1..Len(allFilenames) : i # j => allFilenames[i] # allFilenames[j]
        ELSE allFilenames = src.lines

\* the fullName of every entry is a path of the list, and no path has more
\* entries than it has occurrences in the list
NamesAsSupplied ==
    \A i \in 1..Len(allEntries) :
        /\ allEntries[i].FullName \in Range(allFilenames)
        /\ Occurrences(Names(allEntries), allEntries[i].FullName)
              <= Occurrences(allFilenames, allEntries[i].FullName)

\* C24 as stated: the fullName of each entry is the path as it was supplied
\* and no two entries have the same fullName, whatever the source of the
\* path list.
FullNamesUnique == ListAsSupplied /\ NamesAsSupplied /\ DistinctNames(allEntries)

\* C24: the fullName of each entry is the path as it was supplied; the
\* paths of a file or of standard input are taken line by line, repeated
\* lines included, and no two entries have the same fullName when the list
\* comes from the patterns of -f.
FullNamesUniqueFromGlob ==
    /\ ListAsSupplied
    /\ NamesAsSupplied
    /\ UsesGlob => DistinctNames(allEntries)

\* a path matched by two patterns of -f has one entry
MatchedTwiceWitness ==
    /\ pc = "done"
    /\ cfg.argsFilenames = B("a* a*")
    /\ Len(allEntries) = 2
    /\ Range(Names(allEntries)) = {B("a"), B("ab")}

(***************************************************************************)
(* Properties of the order of the filters                                  *)
(***************************************************************************)

\* the paths examined so far
ExaminedPaths == SubSeq(allFilenames, 1, idx)

\* the path is rejected by a filter on its name
RejectedByName(path) ==
    ~PassesDotExclusion(path) \/ ~PassesExcludeRegex(path) \/ ~PassesIncludeRegex(path)

\* C25: a path rejected by the dot exclusion, the exclude regex or the
\* include regex is never handed to os.Lstat and has no error line, whether
\* it exists or not and whatever -q; every other path examined is handed to
\* os.Lstat before the date and size filters, so that it is stat'ed even when
\* they reject it and has an error line without -q when it does not exist.
NameFiltersBeforeStat ==
    pc \in {"collect", "sort", "render", "done"} =>
        \A i \in 1..idx :
            IF RejectedByName(ExaminedPaths[i])
            THEN /\ ExaminedPaths[i] \notin Range(statCalls)
                 /\ ExaminedPaths[i] \notin Range(LstatErrors)
            ELSE /\ ExaminedPaths[i] \in Range(statCalls)
                 /\ ~StatSucceeds(ExaminedPaths[i]) /\ ~cfg.argsQuiet
                       => ExaminedPaths[i] \in Range(LstatErrors)

\* a path that does not exist and misses the include regex, without -q: no
\* call of os.Lstat and nothing on standard error
RejectedMissingPathWitness ==
    /\ pc = "done"
    /\ ~cfg.argsQuiet
    /\ allFilenames = <<Missing>>
    /\ cfg.argsIncludeRE = B("^a")
    /\ cfg.argsDateOlder # <<>>
    /\ ~StatSucceeds(Missing)
    /\ statCalls = <<>>
    /\ stderr = <<>>

(***************************************************************************)
(* Properties of -q                                                        *)
(***************************************************************************)

\* the iteration of GetFileInfo on path, in a run with -q as quiet
ExaminedWith(path, quiet) ==
    ExaminePath(fs, zone, path, quiet, cfg.argsExcludeDot, cfg.argsExcludeRE, cfg.argsIncludeRE,
                cfg.argsDateNewer, cfg.argsDateOlder, cfg.argsSizeSmaller, cfg.argsSizeLarger)

\* the entry sequence a run with -q as quiet builds from paths
RECURSIVE CollectedWith(_, _)
CollectedWith(paths, quiet) ==
    IF paths = <<>> THEN <<>>
    ELSE CollectedWith(SubSeq(paths, 1, Len(paths) - 1), quiet)
         \o (IF ExaminedWith(paths[Len(paths)], quiet).keep
             THEN <<ExaminedWith(paths[Len(paths)], quiet).entry>> ELSE <<>>)

\* the paths of the error lines a run with -q as quiet writes for paths
ErrorsWith(paths, quiet) ==
    SelectSeq(paths, LAMBDA p : ExaminedWith(p, quiet).errLine)

\* entries as the flags of the run sort them
SortedByFlags(entries) ==
    SortAllEntries(entries, cfg.argsSortSize, cfg.argsSortSizeDesc, cfg.argsSortModTime,
                   cfg.argsSortModTimeDesc, cfg.argsSortName, cfg.argsSortNameDesc,
                   cfg.argsSortNameCaseInsen, cfg.argsSortNameCaseInsenDesc)

\* the rows the flags of the run make of entries
RowsByFlags(entries) ==
    AllRows(entries, cfg.argsCommas, cfg.argsMebibytes, cfg.argsMilliseconds, cfg.argsTotals,
            cfg.argsOnlyFiles, cfg.argsOnlyDirs, cfg.argsOnlyLinks, zone)

\* standard output of a run that completes with rows
StdoutOf(rows) ==
    IF cfg.argsOutputCSV THEN Lines(CsvOutput(rows))
    ELSE IF cfg.argsOutputHTML THEN Lines(HtmlOutput(rows))
    ELSE IF cfg.argsOutputJSON THEN Lines(JsonOutput(rows))
    ELSE IF rows = <<>> THEN <<>>
    ELSE <<Table(shortenFileName(rows, MaxWidth(cfg.argsLongFileNames, cfg.argsLongWidth,
                                                termWidth)))>>

\* the flags of the run with -q the other way
OtherQuiet == [cfg EXCEPT !.argsQuiet = ~cfg.argsQuiet]

\* C26: the run and the run that differs from it in -q only build the same
\* entry sequence, write the same standard output and end with the same exit
\* code: the entries, the calls of os.Lstat, standard output and the exit
\* code of this run are those of the other run; the two differ in the error
\* lines of os.Lstat on standard error, which the run with -q does not write.
QuietChangesStderrOnly ==
    /\ MainValidateArgs(cfg) = MainValidateArgs(OtherQuiet)
    /\ pc \in {"collect", "sort"} =>
          /\ allEntries = CollectedWith(ExaminedPaths, ~cfg.argsQuiet)
          /\ statCalls = SelectSeq(ExaminedPaths, LAMBDA p : ExaminedWith(p, ~cfg.argsQuiet).stat)
          /\ LstatErrors = ErrorsWith(ExaminedPaths, cfg.argsQuiet)
          /\ ErrorsWith(ExaminedPaths, TRUE) = <<>>
    /\ pc \in {"render", "done"} =>
          allEntries = SortedByFlags(CollectedWith(allFilenames, ~cfg.argsQuiet))
    /\ pc = "done" =>
          /\ stdout = StdoutOf(RowsByFlags(SortedByFlags(CollectedWith(allFilenames,
                                                                      ~cfg.argsQuiet))))
          /\ exitCode = 0
    /\ pc = "exit" /\ cause # "jsonTime" => idx = 0 /\ LstatErrors = <<>>

\* the run with -q over a path that does not exist between two that do: the
\* two entries of the run without -q, and nothing on standard error
QuietRunWitness ==
    /\ pc = "done"
    /\ cfg.argsQuiet
    /\ allFilenames = <<B("b"), Missing, B("a")>>
    /\ ErrorsWith(allFilenames, FALSE) = <<Missing>>
    /\ stderr = <<>>
    /\ Names(allEntries) = <<B("b"), B("a")>>
    /\ exitCode = 0
    /\ Len(stdout) = 1

(***************************************************************************)
(* Properties of -if, -id and -il                                          *)
(***************************************************************************)

IncludeOnlySet == cfg.argsOnlyFiles \/ cfg.argsOnlyDirs \/ cfg.argsOnlyLinks

\* the type that -if, -id or -il asks for
OnlyType == IF cfg.argsOnlyFiles THEN "F" ELSE IF cfg.argsOnlyDirs THEN "D" ELSE "L"

\* the entries of the given type, in order
EntriesOfType(type) == SelectSeq(allEntries, LAMBDA e : e.FileType = type)

\* the number of entries of the given type when it is the type asked for
CountedOfType(type) == IF OnlyType = type THEN Len(EntriesOfType(type)) ELSE 0

\* the texts of the rows of the totals
TotalsTexts == {TotalsRowsOf(allRows)[i][4] : i \in 1..Len(TotalsRowsOf(allRows))}

\* C27: with -if, -id or -il only the entries of that type have rows, and the
\* totals of -t are those of these entries: the directory and symlink counts
\* are 0 and their rows absent under -if, the total size and the file count
\* are 0 under -id and -il, and each count is that of the entries of the
\* type asked for.
IncludeOnlyBeforeTotals ==
    pc = "done" /\ IncludeOnlySet =>
        /\ RowNames(ShownEntryRows) = Names(EntriesOfType(OnlyType))
        /\ \A i \in 1..Len(ShownEntryRows) : ShownEntryRows[i][3] = B(OnlyType)
        /\ cfg.argsTotals =>
              /\ totals.totalFileSize =
                    IF OnlyType # "F" THEN 0
                    ELSE IF cfg.argsMebibytes THEN SumOfSizes(EntriesOfType("F")) \div 1048576
                    ELSE SumOfSizes(EntriesOfType("F"))
              /\ totals.totalFileCount = CountedOfType("F")
              /\ totals.totalDirCount = CountedOfType("D")
              /\ totals.totalSymLinkCount = CountedOfType("L")
              /\ TotalsRowsOf(allRows)[1][4] =
                    B("  (total size for ") \o Itoa(CountedOfType("F")) \o B(" files)")
              /\ B("(num of directories)") \in TotalsTexts <=> CountedOfType("D") > 0
              /\ B("(num of sym links)") \in TotalsTexts <=> CountedOfType("L") > 0
              /\ B("(average num of files per directory)") \notin TotalsTexts

\* three files and two directories under -id -t: the rows of the two
\* directories, a total size of 0 for 0 files and 2 directories
OnlyDirsTotalsWitness ==
    /\ pc = "done"
    /\ cfg.argsOnlyDirs
    /\ cfg.argsTotals
    /\ allFilenames = TotalsExample
    /\ Len(EntriesOfType("F")) = 3
    /\ RowNames(ShownEntryRows) = <<B("d"), B("e")>>
    /\ totals.totalFileSize = 0
    /\ totals.totalFileCount = 0
    /\ totals.totalDirCount = 2
    /\ TotalsRowsOf(allRows)[1][2] = B("0")

(***************************************************************************)
(* Properties of shortenFileName                                           *)
(***************************************************************************)

\* a table has been written
TableWritten == pc = "done" /\ DefaultFormat /\ stdout # <<>>

\* handed has one row for each row of given, in order, with the first three
\* columns unchanged and the last one unchanged or shorter
OneRowForEach(given, handed) ==
    /\ Len(handed) = Len(given)
    /\ \A i \in 1..Len(given) :
          /\ Len(handed[i]) = 4
          /\ \A k \in 1..3 : handed[i][k] = given[i][k]
          /\ handed[i][4] = given[i][4] \/ Len(handed[i][4]) < Len(given[i][4])

\* handed is as many empty rows as given has rows, followed by one row for
\* each row of given
EmptyRowsThenOneForEach(given, handed) ==
    /\ Len(handed) = 2 * Len(given)
    /\ \A i \in 1..Len(given) : handed[i] = <<>>
    /\ OneRowForEach(given, SubSeq(handed, Len(given) + 1, 2 * Len(given)))

\* C28: the rows handed to the table writer are one row for each row of the
\* entries and of the totals, in order, with the Mod Time, Size and Type
\* columns unchanged and the Name column unchanged or shortened.
ShortenKeepsRowCount ==
    TableWritten => OneRowForEach(RowsByFlags(allEntries), stdout[1].rows)

\* what the table writer is handed: empty rows first
ShortenPrependsEmptyRows ==
    TableWritten => EmptyRowsThenOneForEach(RowsByFlags(allEntries), stdout[1].rows)

(***************************************************************************)
(* Properties of the ends of the run                                       *)
(***************************************************************************)

RunEnded == pc \in {"done", "exit"}

BothDatesGiven == cfg.argsDateNewer # <<>> /\ cfg.argsDateOlder # <<>>

\* the fatal exits that come before the dates are parsed by ValidateArgs, and
\* those between ValidateArgs and the dates of GetFileInfo
ExitsBeforeDateParse ==
    {"version", "sortConflict", "onlyConflict", "outputConflict", "totalsStructured"}
ExitsBeforeRounding ==
    ExitsBeforeDateParse
    \cup {"sizeRange", "longConflict", "globNoMatch", "openFailed", "emptyList",
          "excludeRegex", "includeRegex"}

\* the run ended because of the malformed date
EndedOnBadDate ==
    /\ RunEnded
    /\ BadDateGiven
    /\ cause \notin (IF BothDatesGiven THEN ExitsBeforeDateParse ELSE ExitsBeforeRounding)

\* C29: a malformed date ends the run with exit code 5 whether one date or
\* both are given.
BadDateExitsFive == EndedOnBadDate => pc = "exit" /\ exitCode = 5

\* -v and the exits of ValidateArgs, which come before the path list is read
ExitsBeforeList ==
    {"version", "sortConflict", "onlyConflict", "outputConflict", "totalsStructured",
     "dateParse", "dateRange", "sizeRange", "longConflict"}

\* the run has ended in one of the two ways: a fatal exit with a code that is
\* not 0, or the return of main after RenderAllEntries; and it has no exit
\* code before
EndsInOneOfTwoWays ==
    /\ pc = "exit" => exitCode > 0 /\ cause # ""
    /\ pc = "done" => exitCode = 0 /\ cause = ""
    /\ ~RunEnded => exitCode = -1 /\ cause = ""

\* a list that is not empty and has no entry is no error
NoEntryIsNoError ==
    RunEnded /\ allFilenames # <<>> /\ ~BadRegexGiven /\ ~BadDateGiven /\ allEntries = <<>> =>
        pc = "done" /\ exitCode = 0 /\ idx = Len(allFilenames)

\* an empty path list has ended the run with 3, whatever else is given
EmptyListExitsThree ==
    RunEnded /\ EmptyPathList => pc = "exit" /\ exitCode = 3 /\ statCalls = <<>>

\* an empty path list has ended the run with 3 unless -v or ValidateArgs
\* ended it before the list was read; no regular expression was compiled, no
\* date rounded and no path stat'ed
EmptyListExitsThreeAfterValidateArgs ==
    RunEnded /\ EmptyPathList /\ cause \notin ExitsBeforeList =>
        /\ pc = "exit"
        /\ exitCode = 3
        /\ cause \in {"emptyList", "globNoMatch"}
        /\ statCalls = <<>>
        /\ idx = 0

\* C30 as stated: every run ends, with a fatal exit of a code that is not 0
\* or by completing after the rendering; an empty path list is fatal with 3
\* before any regular expression or date is checked and before any stat; a
\* list that is not empty and yields no entry completes normally.
EveryRunEndsEmptyListThree ==
    /\ <>RunEnded
    /\ [](EndsInOneOfTwoWays /\ NoEntryIsNoError /\ EmptyListExitsThree)

\* C30: as above, but an empty path list is fatal with 3 when -v is not given
\* and ValidateArgs, which parses the dates when both are given, has not
\* ended the run; it comes before the regular expressions are compiled and
\* the dates rounded in GetFileInfo.
EveryRunEndsEmptyListThreeAfterValidateArgs ==
    /\ <>RunEnded
    /\ [](EndsInOneOfTwoWays /\ NoEntryIsNoError /\ EmptyListExitsThreeAfterValidateArgs)

\* an empty path list with an exclude regex that does not compile and a date
\* that does not parse: the run has ended with 3 on the empty list
EmptyListBeforeRegexWitness ==
    /\ pc = "exit"
    /\ src.lines = <<>>
    /\ cfg.argsExcludeRE = B("(")
    /\ cfg.argsDateNewer = BadDate
    /\ cfg.argsDateOlder = <<>>
    /\ cause = "emptyList"
    /\ exitCode = 3

====
